---- MODULE Spec2Model ----
(***************************************************************************)
(* Model of the two-level research agent: the LangGraph workflow of        *)
(* aiq_aira/hackathon_agent.py (planner -> route -> dynamic_strategy |     *)
(* simple_rag -> final_report), the strategy compiler and sandbox executor *)
(* of aiq_aira/udf_integration.py, and the /research and /research/stream *)
(* handlers of backend/main.py.                                            *)
(*                                                                         *)
(* Text is modelled by TLA+ strings.  A text that is read back as JSON is  *)
(* a record [fmt, val]: its format (raw JSON, a markdown fence around      *)
(* JSON, prose, empty) and the JSON value it spells.  Python values whose  *)
(* type the code does not check are tagged records [t |-> "str", ...].     *)
(***************************************************************************)
EXTENDS Integers, Sequences, FiniteSets, TLC

VARIABLES
    state,      \* HackathonAgentState of the run (the graph's channels)
    config,     \* the "configurable" bundle handed to every node
    pc,         \* where the engine is: START, a node, route, END, failed, responded
    calls,      \* names of the callables the engine has invoked, in order
    events,     \* the per-node updates the graph has streamed: <<[node, update]>>
    raised,     \* text of the exception that aborted the run ("" if none)
    response,   \* what generate_research handed back to the caller
    sandbox,    \* what the last sandbox execution did (executor-local values)
    planner_call,   \* the answer of the planning LLM in this run
    compiler_call,  \* the answer of the compiler LLM in this run
    steps,          \* the collaborator steps the standard pipeline has invoked
    tool_call,      \* the last call of a tool adapter: arguments, reply, outcome
    modules,        \* attributes set on the module objects (json, asyncio, logger)
                    \* that every sandbox execution of the process is handed
    runs            \* the runs in flight on one graph and one UDFIntegration

vars == <<state, config, pc, calls, events, raised, response, sandbox,
          planner_call, compiler_call, steps, tool_call, modules, runs>>

----------------------------------------------------------------------------
(* Python helpers *)

EmptyDict == [k \in {} |-> ""]

\* dict.get(key, default)
dict_get(d, k, default) == IF k \in DOMAIN d THEN d[k] ELSE default

IsPrefix(s, t) == Len(s) <= Len(t) /\ SubSeq(t, 1, Len(s)) = s

\* An outcome of a call: a returned value, or a raised exception.
Return(v) == [ok |-> TRUE, val |-> v, exc |-> "", base |-> FALSE]
Raise(e) == [ok |-> FALSE, val |-> EmptyDict, exc |-> e, base |-> FALSE]
NotCalled == Raise("not called")

\* str.startswith
StartsWith(s, prefix) ==
    Len(s) >= Len(prefix) /\ SubSeq(s, 1, Len(prefix)) = prefix

----------------------------------------------------------------------------
(* JSON values and the texts that spell them *)

JObj(f) == [t |-> "obj", f |-> f]
JArr == [t |-> "arr", f |-> EmptyDict]
JNum == [t |-> "num", f |-> EmptyDict]
JNothing == [t |-> "nothing", f |-> EmptyDict]

\* "json": the text is exactly a JSON document; "fenced": a json-fenced block
\* inside markdown; "prose": no JSON in it; "empty": the empty string.
Text(fmt, val) == [fmt |-> fmt, val |-> val]
EmptyText == Text("empty", JNothing)

\* json.dumps
json_dumps(v) == Text("json", v)

MutJsonLoadsReadsFences(text) ==
    IF text.fmt \in {"json", "fenced"} THEN Return(text.val)
    ELSE Raise("JSONDecodeError")

\* json.loads: only a bare JSON document decodes.
json_loads(text) ==
    IF text.fmt = "json" THEN Return(text.val) ELSE Raise("JSONDecodeError")

\* langchain_core.utils.json.parse_json_markdown: a bare document or the
\* content of a markdown fence decodes; anything else raises.
parse_json_markdown(text) ==
    IF text.fmt \in {"json", "fenced"} THEN Return(text.val)
    ELSE Raise("JSONDecodeError")

----------------------------------------------------------------------------
(* Inputs *)

Topics == {"tariffs"}
ReportOrgs == {"intro/analysis/conclusion"}
Collections == {"", "docs"}

\* Decision objects the planning model may spell.
Decisions ==
    { [strategy |-> "SIMPLE_RAG", rationale |-> "simple"],
      [strategy |-> "SIMPLE_RAG", rationale |-> "simple", plan |-> "steps"],
      [strategy |-> "DYNAMIC_STRATEGY", rationale |-> "complex", plan |-> "steps"],
      [strategy |-> "DYNAMIC_STRATEGY", rationale |-> "complex"],
      [strategy |-> "HYBRID", rationale |-> "other", plan |-> "steps"],
      [rationale |-> "no strategy"],
      EmptyDict }

JsonValues == {JObj(d) : d \in Decisions} \cup {JArr, JNum}

\* Texts the planning model may stream back.
PlannerTexts ==
    {Text("json", v) : v \in JsonValues}
        \cup {Text("fenced", v) : v \in JsonValues}
        \cup {Text("prose", JNothing), EmptyText}

\* The planning call: streams a text, or raises (transport error, timeout).
PlannerCalls == {Return(t) : t \in PlannerTexts} \cup {Raise("TimeoutError")}

----------------------------------------------------------------------------
(* RunState *)

\* main.py generate_research: the initial state built from the request.
InitialState(topic, org, collection, search_web) ==
    [ research_prompt |-> topic,
      report_organization |-> org,
      collection |-> collection,
      search_web |-> search_web,
      plan |-> EmptyText,
      queries |-> <<>>,
      web_research_results |-> <<>>,
      citations |-> "",
      running_summary |-> "",
      udf_strategy |-> "",
      udf_result |-> EmptyDict,
      final_report |-> "",
      logs |-> <<>> ]

\* The reducer of a state key: logs is Annotated[List[str], operator.add],
\* every other key is replaced.
MutReduceReplaceLogs(k, old, new) == new
Reduce(k, old, new) == IF k = "logs" THEN old \o new ELSE new

MutApplyUpdateClearsRest(st, upd) ==
    [k \in DOMAIN st |->
        IF k \in DOMAIN upd THEN Reduce(k, st[k], upd[k])
        ELSE InitialState("", "", "", TRUE)[k]]

\* The engine's merge of a node's partial update into the state.
ApplyUpdate(st, upd) ==
    [k \in DOMAIN st |-> IF k \in DOMAIN upd THEN Reduce(k, st[k], upd[k]) ELSE st[k]]

----------------------------------------------------------------------------
(* Nodes *)

MutPlannerFallbackSilent ==
    [ plan |-> json_dumps(JObj([strategy |-> "SIMPLE_RAG"])),
      udf_strategy |-> "",
      logs |-> <<>> ]

\* The update of planner_node's except clause.
PlannerFallback ==
    [ plan |-> json_dumps(JObj([strategy |-> "SIMPLE_RAG"])),
      udf_strategy |-> "",
      logs |-> <<"Planning error, defaulting to SIMPLE_RAG">> ]

MutPlannerStoresResponse(st, llm) ==
    IF ~llm.ok THEN Raise(llm.exc)
    ELSE
        LET parsed == parse_json_markdown(llm.val)
        IN  IF parsed.ok /\ parsed.val.t = "obj"
            THEN LET decision == parsed.val.f
                     strategy == dict_get(decision, "strategy", "SIMPLE_RAG")
                     rationale == dict_get(decision, "rationale", "")
                     plan == dict_get(decision, "plan", "")
                     log_msg == "Strategy: " \o strategy \o " Rationale: " \o rationale
                 IN  Return([ plan |-> llm.val,
                              udf_strategy |->
                                  IF strategy = "DYNAMIC_STRATEGY" THEN plan ELSE "",
                              logs |-> <<log_msg>> ])
            ELSE Return(PlannerFallback)

\* planner_node.  The LLM stream is consumed before the try block, so an
\* exception of the call leaves the node; parsing is inside the try block.
planner_node(st, llm) ==
    IF ~llm.ok THEN Raise(llm.exc)
    ELSE
        LET parsed == parse_json_markdown(llm.val)
        IN  IF parsed.ok /\ parsed.val.t = "obj"
            THEN LET decision == parsed.val.f
                     strategy == dict_get(decision, "strategy", "SIMPLE_RAG")
                     rationale == dict_get(decision, "rationale", "")
                     plan == dict_get(decision, "plan", "")
                     log_msg == "Strategy: " \o strategy \o " Rationale: " \o rationale
                 IN  Return([ plan |-> json_dumps(parsed.val),
                              udf_strategy |->
                                  IF strategy = "DYNAMIC_STRATEGY" THEN plan ELSE "",
                              logs |-> <<log_msg>> ])
            ELSE \* JSONDecodeError, or AttributeError of decision.get
                 Return(PlannerFallback)

MutRouteSwapped(st) ==
    LET decoded == json_loads(dict_get(st, "plan", EmptyText))
    IN  IF decoded.ok /\ decoded.val.t = "obj"
        THEN IF dict_get(decoded.val.f, "strategy", "SIMPLE_RAG") = "DYNAMIC_STRATEGY"
             THEN "simple_rag"
             ELSE "dynamic_strategy"
        ELSE "simple_rag"

\* route_after_planner
route_after_planner(st) ==
    LET decoded == json_loads(dict_get(st, "plan", EmptyText))
    IN  IF decoded.ok /\ decoded.val.t = "obj"
        THEN IF dict_get(decoded.val.f, "strategy", "SIMPLE_RAG") = "DYNAMIC_STRATEGY"
             THEN "dynamic_strategy"
             ELSE "simple_rag"
        ELSE "simple_rag"

----------------------------------------------------------------------------
(* Python values whose type the code never checks *)

PyStr(s) == [t |-> "str", s |-> s, l |-> <<>>]
PyNone == [t |-> "none", s |-> "", l |-> <<>>]
PyList(l) == [t |-> "list", s |-> "", l |-> l]

\* len(x): defined on strings and lists, TypeError otherwise.
HasLen(x) == x.t \in {"str", "list"}
PyLen(x) == IF x.t = "str" THEN Len(x.s) ELSE Len(x.l)

\* An element of a sources list: a dict, or (malformed) a bare string.
SrcDict(d) == [t |-> "dict", d |-> d]
SrcStr == [t |-> "str", d |-> EmptyDict]

WebSource == SrcDict([source |-> "web", url |-> "http://a", title |-> "A"])
RagSource == SrcDict([source |-> "rag", title |-> "doc1"])

\* A Python value json.dumps cannot encode (a set), and a source holding one.
PySet == "{set}"
TaggedSource == SrcDict([source |-> "web", url |-> "http://a", tags |-> PySet])

\* What generated code hands back: a dict, None (no return), or another type.
RetDict(d) == [t |-> "dict", d |-> d]
RetNone == [t |-> "NoneType", d |-> EmptyDict]
RetStr == [t |-> "str", d |-> EmptyDict]

----------------------------------------------------------------------------
(* Tool adapters of UDFStrategyExecutor.  The arguments are what generated *)
(* code passes: any Python value.  reply is what the collaborator behind   *)
(* the adapter (RAG service, web-search provider, synthesis LLM) does.     *)

PyInt == [t |-> "int", s |-> "", l |-> <<>>]
\* A dict, held as the keys an iteration over it yields.
PyDict(keys) == [t |-> "dict", s |-> "", l |-> keys]

\* x[:50]: strings and lists can be sliced, TypeError otherwise.
Sliceable(x) == x.t \in {"str", "list"}

\* len(x)
Sized(x) == x.t \in {"str", "list", "dict"}

\* What a for loop over x yields: the items of a list, the keys of a dict,
\* the characters of a string.
Iterate(x) == IF x.t = "str" THEN [i \in 1..Len(x.s) |-> SrcStr] ELSE x.l

\* One line of the body the RAG service streams back.
DataLine(event) == [data |-> TRUE, json |-> TRUE, event |-> event]
BadDataLine == [data |-> TRUE, json |-> FALSE, event |-> EmptyDict]
OtherLine == [data |-> FALSE, json |-> FALSE, event |-> EmptyDict]

Message(content) == [message |-> [content |-> content]]

RagEvents ==
    { [choices |-> <<Message("chunk")>>],
      [choices |-> <<Message("chunk")>>, citations |-> [results |-> <<"doc1">>]],
      [choices |-> <<>>],
      EmptyDict }

RagLines == {DataLine(e) : e \in RagEvents} \cup {BadDataLine, OtherLine}

RagReplies ==
    {Return(b) : b \in {<<>>} \cup {<<x>> : x \in RagLines}
                          \cup {<<x, y>> : x \in {DataLine(e) : e \in RagEvents}, y \in RagLines}}
        \cup {Raise("ClientConnectorError"), Raise("TimeoutError"),
              Raise("ClientResponseError")}

\* The record search_rag hands back.
RagResult(content, citations) ==
    [content |-> content, citations |-> citations, source |-> "rag"]

\* The loop over the streamed lines: content and citations so far, or the
\* exception a line raised.
RECURSIVE ParseRagLines(_, _, _)
ParseRagLines(lines, content, citations) ==
    IF lines = <<>> THEN Return(RagResult(content, citations))
    ELSE LET line == Head(lines)
         IN  IF ~line.data THEN ParseRagLines(Tail(lines), content, citations)
             ELSE IF ~line.json THEN Raise("JSONDecodeError")
             ELSE LET choices == dict_get(line.event, "choices", <<EmptyDict>>)
                  IN  IF choices = <<>> THEN Raise("IndexError")
                      ELSE ParseRagLines(
                             Tail(lines),
                             content \o dict_get(dict_get(choices[1], "message", EmptyDict),
                                                 "content", ""),
                             IF "citations" \in DOMAIN line.event
                             THEN citations \o dict_get(line.event["citations"], "results", <<>>)
                             ELSE citations)

\* _search_rag_tool(query, collection).  The log line slices the query
\* before the try block; everything after it is inside the try block.
search_rag_tool(query, collection, reply) ==
    IF ~Sliceable(query) THEN Raise("TypeError")
    ELSE IF ~reply.ok
         THEN Return(RagResult("Error searching RAG: " \o reply.exc, <<>>))
         ELSE LET parsed == ParseRagLines(reply.val, "", <<>>)
              IN  IF parsed.ok THEN parsed
                  ELSE Return(RagResult("Error searching RAG: " \o parsed.exc, <<>>))

\* The key the executor was built with: None, the empty string, or a key.
TavilyKeys == {PyNone, PyStr(""), PyStr("tvly-key")}

\* What the search provider hands back: a list of result dicts, a list with
\* an entry that is no dict, or an exception.
WebHit(d) == SrcDict(d)
WebReplies ==
    { Return(<<>>),
      Return(<<WebHit([content |-> "text", url |-> "http://a", title |-> "A"])>>),
      Return(<<WebHit([content |-> "text", url |-> "http://a", title |-> "A"]),
               WebHit([content |-> "more"])>>),
      Return(<<SrcStr>>),
      Raise("ImportError"), Raise("HTTPError") }

\* The record search_web makes of one provider result.
WebResult(r) ==
    [ content |-> dict_get(r.d, "content", ""), url |-> dict_get(r.d, "url", ""),
      title |-> dict_get(r.d, "title", ""), source |-> "web" ]

MutWebRequestedWithEmptyKey(query, tavily_api_key) ==
    Sliceable(query) /\ tavily_api_key.t = "str"

\* Whether search_web goes to the provider: only with a key.
WebRequested(query, tavily_api_key) ==
    Sliceable(query) /\ tavily_api_key.t = "str" /\ tavily_api_key.s # ""

\* _search_web_tool(query), of an executor holding tavily_api_key.
search_web_tool(query, tavily_api_key, reply) ==
    IF ~Sliceable(query) THEN Raise("TypeError")
    ELSE IF ~WebRequested(query, tavily_api_key) THEN Return(<<>>)
    ELSE IF ~reply.ok THEN Return(<<>>)
    ELSE IF \E i \in 1..Len(reply.val) : reply.val[i].t # "dict" THEN Return(<<>>)
    ELSE Return([i \in 1..Len(reply.val) |-> WebResult(reply.val[i])])

\* What the synthesis LLM answers: a completion, a body without choices,
\* or an exception.
SynthReplies ==
    { Return([choices |-> <<Message("synthesized report")>>]),
      Return([choices |-> <<>>]),
      Return(EmptyDict),
      Raise("ClientConnectorError"), Raise("TimeoutError") }

\* _synthesize_findings_tool(data).  The log line takes len(data) and the
\* prompt is built with item.get(...) before the try block.
synthesize_findings_tool(data, reply) ==
    IF ~Sized(data) THEN Raise("TypeError")
    ELSE IF \E i \in 1..Len(Iterate(data)) : Iterate(data)[i].t # "dict"
         THEN Raise("AttributeError")
    ELSE IF ~reply.ok THEN Return("Error synthesizing findings: " \o reply.exc)
    ELSE IF "choices" \notin DOMAIN reply.val
         THEN Return("Error synthesizing findings: KeyError")
    ELSE IF reply.val["choices"] = <<>>
         THEN Return("Error synthesizing findings: IndexError")
    ELSE Return(reply.val["choices"][1].message.content)

----------------------------------------------------------------------------
(* Generated code.  A code text is a sequence of tokens: statements of the *)
(* strategy, white space, prose, and markdown fence markers.               *)

MaxStmts == 2

\* The fence markers: three backquotes followed by "python", and three backquotes.
FencePython == "[fence]python"
FencePlain == "[fence]"
Ws == "ws"
Prose == "prose"

\* Statements that append to the namespace's accumulators.
AppendStmts == {"log", "src_web", "src_rag"}

\* Statements that end the coroutine.
EndStmts ==
    { "raise",               \* raise RuntimeError("boom")
      "raise_empty",         \* raise RuntimeError()
      "exit",                \* raise SystemExit (not an Exception)
      "return_ok",           \* return {"report": "report text", "sources": sources, "log": execution_log}
      "return_fresh",        \* return {"report": "report text", "sources": [], "log": []}
      "return_empty_report", \* return {"report": "", "sources": sources, "log": execution_log}
      "return_nokeys",       \* return {}
      "return_str",          \* return "report text"
      "return_bad_report",   \* return {"report": None, "sources": sources, "log": execution_log}
      "return_bad_sources",  \* return {"report": "report text", "sources": ["http://a"], "log": execution_log}
      "return_bad_log",      \* return {"report": "report text", "sources": sources, "log": "done"}
      "return_json",         \* return {"report": json.dumps(context), "sources": sources, "log": execution_log}
      "return_import" }      \* import os; return {"report": os.getcwd(), "sources": sources, "log": execution_log}

\* Ending statements that set or read an attribute of the json module.
ModuleStmts ==
    { "return_stash",     \* json.stash = list(sources); return {"report": "report text", "sources": sources, "log": execution_log}
      "return_unstash" }  \* return {"report": "report text", "sources": sources + getattr(json, "stash", []), "log": execution_log}

\* A statement that raises with a message of the code's own choosing, and
\* one that collects a value json.dumps cannot encode.
ExtraStmts ==
    { "raise_prefixed",   \* raise ValueError("Compilation error: x")
      "src_tagged" }      \* sources.append({"source": "web", "url": "http://a", "tags": {"x"}})

Stmts == AppendStmts \cup EndStmts \cup ModuleStmts \cup ExtraStmts

RECURSIVE SeqsUpTo(_, _)
SeqsUpTo(S, n) ==
    IF n = 0 THEN {<<>>}
    ELSE LET shorter == SeqsUpTo(S, n - 1)
         IN  shorter \cup {Append(s, x) : s \in {q \in shorter : Len(q) = n - 1}, x \in S}

\* Strategies: up to MaxStmts appends, then at most one ending statement.
Programs ==
    LET bodies == SeqsUpTo(AppendStmts, MaxStmts)
    IN  bodies \cup {Append(b, e) : b \in bodies, e \in EndStmts}

\* Texts the compiler model may answer with.
\* The ways the compiler LLM hands back the code p: bare, between blank
\* lines, in a python fence, in a plain fence, and fenced between prose.
Wrappings(p) ==
    { p,
      <<Ws>> \o p \o <<Ws>>,
      <<FencePython, Ws>> \o p \o <<Ws, FencePlain>>,
      <<FencePlain, Ws>> \o p \o <<Ws, FencePlain>>,
      <<Prose, Ws, FencePython, Ws>> \o p \o <<Ws, FencePlain, Ws, Prose>>,
      <<Prose, Ws, FencePlain, Ws>> \o p \o <<Ws, FencePlain, Ws, Prose>> }

CompilerTexts ==
    UNION {Wrappings(p) : p \in Programs} \cup {<<Prose>>, <<Prose, Ws, Prose>>}
        \cup {<<"raise_prefixed">>, <<"src_web", "raise_prefixed">>}

\* The compiler call: answers with a text, or raises.
CompilerCalls == {Return(t) : t \in CompilerTexts} \cup {Raise("ConnectionError")}

----------------------------------------------------------------------------
(* str methods on token texts *)

RECURSIVE LStrip(_)
LStrip(s) == IF s # <<>> /\ Head(s) = Ws THEN LStrip(Tail(s)) ELSE s

RECURSIVE RStrip(_)
RStrip(s) ==
    IF s # <<>> /\ s[Len(s)] = Ws THEN RStrip(SubSeq(s, 1, Len(s) - 1)) ELSE s

\* str.strip()
Strip(s) == LStrip(RStrip(s))

\* Positions at which the separator occurs.  The plain marker is a substring
\* of the python marker, so a python fence is an occurrence of the plain marker too.
Occurs(tok, sep) == tok = sep \/ (sep = FencePlain /\ tok = FencePython)
Hits(s, sep) == {i \in 1..Len(s) : Occurs(s[i], sep)}

\* sep in s
Contains(s, sep) == Hits(s, sep) # {}

\* What follows an occurrence of the plain marker inside a python fence.
Rest(tok, sep) == IF sep = FencePlain /\ tok = FencePython THEN <<"python">> ELSE <<>>

\* s.split(sep)[0] and s.split(sep)[1]
Split0(s, sep) ==
    IF Hits(s, sep) = {} THEN s
    ELSE SubSeq(s, 1, (CHOOSE i \in Hits(s, sep) : \A j \in Hits(s, sep) : i <= j) - 1)
Split1(s, sep) ==
    LET first == CHOOSE i \in Hits(s, sep) : \A j \in Hits(s, sep) : i <= j
        after == SubSeq(s, first + 1, Len(s))
    IN  Rest(s[first], sep) \o Split0(after, sep)

----------------------------------------------------------------------------
(* Strategy compiler *)

MutCompilePlainFenceFirst(call) ==
    IF ~call.ok THEN Raise(call.exc)
    ELSE LET code == Strip(call.val)
         IN  IF Contains(code, FencePlain)
             THEN Return(Strip(Split0(Split1(code, FencePlain), FencePlain)))
             ELSE Return(code)

\* UDFStrategyCompiler.compile_strategy: the LLM call, then the removal of a
\* markdown code block around the code.  Nothing here rejects a response.
compile_strategy(call) ==
    IF ~call.ok THEN Raise(call.exc)
    ELSE LET code == Strip(call.val)
         IN  IF Contains(code, FencePython)
             THEN Return(Strip(Split0(Split1(code, FencePython), FencePlain)))
             ELSE IF Contains(code, FencePlain)
                  THEN Return(Strip(Split0(Split1(code, FencePlain), FencePlain)))
                  ELSE Return(code)

----------------------------------------------------------------------------
(* Sandbox executor *)

\* Whether exec() accepts the wrapped code: a non-empty body of statements.
ValidPython(code) ==
    /\ \E i \in 1..Len(code) : code[i] \in Stmts
    /\ \A i \in 1..Len(code) : code[i] \in Stmts \cup {Ws}

\* The namespace dict execute_strategy builds: each name and what it is bound to.
namespace ==
    [ search_rag |-> "tool", search_web |-> "tool", synthesize_findings |-> "tool",
      context |-> "dict", execution_log |-> "list", sources |-> "list",
      json |-> "module", asyncio |-> "module", logger |-> "logger" ]

\* The globals of the generated code: exec(code, globals) adds the key
\* __builtins__ (open, __import__, the exception classes, ...) to a dict that
\* does not hold it.
ExecGlobals == DOMAIN namespace \cup {"__builtins__"}

\* The global names a statement of the strategy reads.
Uses(s) ==
    CASE s = "log" -> {"execution_log"}
      [] s \in {"src_web", "src_rag", "src_tagged"} -> {"sources"}
      [] s \in {"raise", "raise_empty", "exit", "raise_prefixed"} -> {"__builtins__"}
      [] s \in {"return_ok", "return_empty_report", "return_bad_report"} ->
            {"sources", "execution_log"}
      [] s = "return_bad_sources" -> {"execution_log"}
      [] s = "return_bad_log" -> {"sources"}
      [] s = "return_json" -> {"json", "context", "sources", "execution_log"}
      [] s \in ModuleStmts -> {"json", "sources", "execution_log"}
      [] s = "return_import" -> {"__builtins__", "sources", "execution_log"}
      [] OTHER -> {}

ReturnedDict(kind, log, srcs) ==
    CASE kind = "return_ok" ->
            [report |-> PyStr("report text"), sources |-> PyList(srcs), log |-> PyList(log)]
      [] kind = "return_fresh" ->
            [report |-> PyStr("report text"), sources |-> PyList(<<>>), log |-> PyList(<<>>)]
      [] kind = "return_empty_report" ->
            [report |-> PyStr(""), sources |-> PyList(srcs), log |-> PyList(log)]
      [] kind = "return_bad_report" ->
            [report |-> PyNone, sources |-> PyList(srcs), log |-> PyList(log)]
      [] kind = "return_bad_sources" ->
            [report |-> PyStr("report text"), sources |-> PyList(<<SrcStr>>), log |-> PyList(log)]
      [] kind = "return_bad_log" ->
            [report |-> PyStr("report text"), sources |-> PyList(srcs), log |-> PyStr("done")]
      [] kind = "return_json" ->
            [report |-> PyStr("{context as json}"), sources |-> PyList(srcs), log |-> PyList(log)]
      [] kind = "return_import" ->
            [report |-> PyStr("/working/directory"), sources |-> PyList(srcs), log |-> PyList(log)]
      [] OTHER -> EmptyDict   \* return_nokeys

\* The module objects json, asyncio and logger as the process imports them:
\* no attribute set by generated code.
FreshModules == [json |-> EmptyDict, asyncio |-> EmptyDict, logger |-> EmptyDict]

\* How the coroutine _udf_execute ends, what it left in the namespace's
\* execution_log and sources lists, and the module objects after it.
Ended(how, ret, exc, log, srcs, mods) ==
    [ how |-> how, ret |-> ret, exc |-> exc, execution_log |-> log, sources |-> srcs,
      modules |-> mods ]

RECURSIVE RunCode(_, _, _, _)
RunCode(code, log, srcs, mods) ==
    IF code = <<>> THEN Ended("return", RetNone, "", log, srcs, mods)
    ELSE LET s == Head(code)
         IN  CASE s = Ws -> RunCode(Tail(code), log, srcs, mods)
               [] ~(Uses(s) \subseteq ExecGlobals) ->
                    Ended("raise", RetNone, "name is not defined", log, srcs, mods)
               [] s = "log" ->
                    RunCode(Tail(code), Append(log, "step " \o ToString(Len(log) + 1)),
                            srcs, mods)
               [] s = "src_web" -> RunCode(Tail(code), log, Append(srcs, WebSource), mods)
               [] s = "src_rag" -> RunCode(Tail(code), log, Append(srcs, RagSource), mods)
               [] s = "src_tagged" ->
                    RunCode(Tail(code), log, Append(srcs, TaggedSource), mods)
               [] s = "raise" -> Ended("raise", RetNone, "boom", log, srcs, mods)
               [] s = "raise_empty" -> Ended("raise", RetNone, "", log, srcs, mods)
               [] s = "raise_prefixed" ->
                    Ended("raise", RetNone, "Compilation error: x", log, srcs, mods)
               [] s = "exit" -> Ended("base", RetNone, "SystemExit", log, srcs, mods)
               [] s = "return_str" -> Ended("return", RetStr, "", log, srcs, mods)
               [] s = "return_stash" ->
                    Ended("return", RetDict(ReturnedDict("return_ok", log, srcs)), "",
                          log, srcs, [mods EXCEPT !.json = [stash |-> srcs]])
               [] s = "return_unstash" ->
                    Ended("return",
                          RetDict(ReturnedDict("return_ok", log,
                                               srcs \o dict_get(mods.json, "stash", <<>>))),
                          "", log, srcs, mods)
               [] OTHER ->
                    Ended("return", RetDict(ReturnedDict(s, log, srcs)), "", log, srcs, mods)

\* exec(wrapped_code, namespace) and the await of the coroutine, on fresh
\* execution_log and sources lists and the module objects of the process.
Sandbox(code, mods) ==
    IF ~ValidPython(code) THEN Ended("raise", RetNone, "invalid syntax", <<>>, <<>>, mods)
    ELSE RunCode(code, <<>>, <<>>, mods)

\* UDFExecutionResult
UDFExecutionResult(success, report, sources, log, error) ==
    [ success |-> success, synthesized_report |-> report, sources |-> sources,
      execution_log |-> log, error |-> error ]

MutExecutorFailureDropsLog(run, error) ==
    UDFExecutionResult(FALSE, PyStr(""), PyList(<<>>), PyList(<<>>), PyStr(error))

\* The failed result of the except clause of execute_strategy.
ExecutorFailure(run, error) ==
    UDFExecutionResult(FALSE, PyStr(""), PyList(<<>>), PyList(run.execution_log), PyStr(error))

MutExecutorSuccessReadsAccumulators(run) ==
    UDFExecutionResult(TRUE,
                       dict_get(run.ret.d, "report", PyStr("")),
                       PyList(run.sources),
                       PyList(run.execution_log),
                       PyNone)

\* The result execute_strategy builds from the record the code returned.
ExecutorSuccess(run) ==
    UDFExecutionResult(TRUE,
                       dict_get(run.ret.d, "report", PyStr("")),
                       dict_get(run.ret.d, "sources", PyList(<<>>)),
                       dict_get(run.ret.d, "log", PyList(<<>>)),
                       PyNone)

MutIsInstanceAcceptsNone(result) == result.t \in {"dict", "NoneType"}

\* isinstance(result, dict)
isinstance_dict(result) == result.t = "dict"

MutExecuteStrategyKeepsSources(compiled_code, context, mods) ==
    LET run == Sandbox(compiled_code, mods)
    IN  CASE run.how = "base" ->
                [ok |-> FALSE, val |-> EmptyDict, exc |-> run.exc, base |-> TRUE]
          [] run.how = "raise" ->
                Return(UDFExecutionResult(FALSE, PyStr(""), PyList(run.sources),
                                          PyList(run.execution_log), PyStr(run.exc)))
          [] run.how = "return" /\ ~isinstance_dict(run.ret) ->
                Return(ExecutorFailure(run, "Strategy must return a dict, got " \o run.ret.t))
          [] OTHER ->
                Return(ExecutorSuccess(run))

\* UDFStrategyExecutor.execute_strategy(compiled_code, context)
execute_strategy(compiled_code, context, mods) ==
    LET run == Sandbox(compiled_code, mods)
    IN  CASE run.how = "base" ->
                [ok |-> FALSE, val |-> EmptyDict, exc |-> run.exc, base |-> TRUE]
          [] run.how = "raise" -> Return(ExecutorFailure(run, run.exc))
          [] run.how = "return" /\ ~isinstance_dict(run.ret) ->
                Return(ExecutorFailure(run, "Strategy must return a dict, got " \o run.ret.t))
          [] OTHER ->
                Return(ExecutorSuccess(run))

\* UDFIntegration.execute_dynamic_strategy(natural_language_plan, context):
\* compile, then execute.  Only an exception of the compiler is a
\* compilation error.
MutCompileErrorPropagates(natural_language_plan, context, call, mods) ==
    LET compiled == compile_strategy(call)
    IN  IF ~compiled.ok THEN compiled ELSE execute_strategy(compiled.val, context, mods)

execute_dynamic_strategy(natural_language_plan, context, call, mods) ==
    LET compiled == compile_strategy(call)
    IN  IF ~compiled.ok
        THEN Return(UDFExecutionResult(FALSE, PyStr(""), PyList(<<>>), PyList(<<>>),
                                       PyStr("Compilation error: " \o compiled.exc)))
        ELSE execute_strategy(compiled.val, context, mods)

\* The module objects after execute_dynamic_strategy: generated code that ran
\* may have set attributes on them.
ModulesAfter(call, mods) ==
    LET compiled == compile_strategy(call)
    IN  IF compiled.ok THEN Sandbox(compiled.val, mods).modules ELSE mods

MutRetryFailedStrategy(call, mods) ==
    LET compiled == compile_strategy(call)
    IN  IF ~compiled.ok THEN <<"compile_strategy", "compile_strategy">>
        ELSE IF Sandbox(compiled.val, mods).how = "return"
        THEN <<"compile_strategy", "execute_strategy">>
        ELSE <<"compile_strategy", "execute_strategy", "execute_strategy">>

\* The calls one execute_dynamic_strategy makes, in order: the compiler, then
\* the executor unless the compiler raised.
Invocations(call, mods) ==
    LET compiled == compile_strategy(call)
    IN  IF ~compiled.ok THEN <<"compile_strategy">>
        ELSE <<"compile_strategy", "execute_strategy">>

\* The executor-local values of one call of execute_dynamic_strategy.
NoSandbox ==
    [ compiled |-> FALSE, executed |-> FALSE, invoked |-> <<>>, code |-> <<>>, globals |-> {},
      execution_log |-> <<>>, sources |-> <<>>, returned |-> FALSE,
      result |-> UDFExecutionResult(FALSE, PyNone, PyNone, PyNone, PyNone) ]

SandboxOf(call, mods) ==
    LET compiled == compile_strategy(call)
        out == execute_dynamic_strategy("", EmptyDict, call, mods)
        run == Sandbox(compiled.val, mods)
    IN  [ compiled |-> TRUE,
          executed |-> compiled.ok,
          invoked |-> Invocations(call, mods),
          code |-> IF compiled.ok THEN compiled.val ELSE <<>>,
          globals |-> IF compiled.ok THEN ExecGlobals ELSE {},
          execution_log |-> IF compiled.ok THEN run.execution_log ELSE <<>>,
          sources |-> IF compiled.ok THEN run.sources ELSE <<>>,
          returned |-> out.ok,
          result |-> IF out.ok THEN out.val ELSE NoSandbox.result ]

----------------------------------------------------------------------------
(* Branch and finalize nodes *)

MutCitationLinePrefersTitle(src) ==
    "- [" \o dict_get(src.d, "source", "unknown") \o "] "
          \o dict_get(src.d, "title", dict_get(src.d, "url", "N/A"))

\* One line of the citation block.
CitationLine(src) ==
    "- [" \o dict_get(src.d, "source", "unknown") \o "] "
          \o dict_get(src.d, "url", dict_get(src.d, "title", "N/A"))

\* "\n".join(lines)
RECURSIVE JoinLines(_)
JoinLines(lines) ==
    IF lines = <<>> THEN ""
    ELSE IF Len(lines) = 1 THEN lines[1]
    ELSE lines[1] \o "\n" \o JoinLines(Tail(lines))

FormatCitations(sources) ==
    JoinLines([i \in 1..Len(sources) |-> CitationLine(sources[i])])

MutDynamicFailureResetsSummary(error, log_line) ==
    [ udf_result |-> [success |-> FALSE, error |-> error],
      running_summary |-> error,
      citations |-> "",
      logs |-> <<log_line>> ]

\* The update dynamic_strategy_node returns when the branch failed.
DynamicFailure(error, log_line) ==
    [ udf_result |-> [success |-> FALSE, error |-> error],
      logs |-> <<log_line>> ]

MutDynamicNodeNeedsIntegration(st, cfg, call, mods) ==
    IF ~cfg.udf_integration
    THEN Raise("AttributeError")
    ELSE
        LET strategy == dict_get(st, "udf_strategy", "")
            context == [ topic |-> st.research_prompt,
                         report_organization |-> st.report_organization,
                         collection |-> dict_get(st, "collection", ""),
                         search_web |-> dict_get(st, "search_web", TRUE) ]
            out == execute_dynamic_strategy(strategy, context, call, mods)
        IN  IF ~out.ok THEN out
            ELSE LET result == out.val
                 IN  IF result.success
                     THEN IF ~HasLen(result.synthesized_report) \/ ~HasLen(result.sources)
                          THEN Raise("TypeError")          \* len() of the report or sources
                          ELSE IF \E i \in 1..Len(result.sources.l) :
                                      result.sources.l[i].t # "dict"
                          THEN Raise("AttributeError")     \* src.get of a non-dict
                          ELSE Return(
                                [ udf_result |-> [ success |-> TRUE,
                                                   report |-> result.synthesized_report.s,
                                                   sources |-> result.sources.l ],
                                  running_summary |-> result.synthesized_report.s,
                                  citations |-> FormatCitations(result.sources.l),
                                  logs |-> <<"UDF strategy execution complete">> ])
                     ELSE Return(DynamicFailure(result.error.s,
                                                "UDF execution failed: " \o result.error.s))

\* dynamic_strategy_node; call is the answer of the compiler LLM.
dynamic_strategy_node(st, cfg, call, mods) ==
    IF ~cfg.udf_integration
    THEN Return(DynamicFailure("UDF integration not configured",
                               "UDF integration not configured"))
    ELSE
        LET strategy == dict_get(st, "udf_strategy", "")
            context == [ topic |-> st.research_prompt,
                         report_organization |-> st.report_organization,
                         collection |-> dict_get(st, "collection", ""),
                         search_web |-> dict_get(st, "search_web", TRUE) ]
            out == execute_dynamic_strategy(strategy, context, call, mods)
        IN  IF ~out.ok THEN out
            ELSE LET result == out.val
                 IN  IF result.success
                     THEN IF ~HasLen(result.synthesized_report) \/ ~HasLen(result.sources)
                          THEN Raise("TypeError")          \* len() of the report or sources
                          ELSE IF \E i \in 1..Len(result.sources.l) :
                                      result.sources.l[i].t # "dict"
                          THEN Raise("AttributeError")     \* src.get of a non-dict
                          ELSE Return(
                                [ udf_result |-> [ success |-> TRUE,
                                                   report |-> result.synthesized_report.s,
                                                   sources |-> result.sources.l ],
                                  running_summary |-> result.synthesized_report.s,
                                  citations |-> FormatCitations(result.sources.l),
                                  logs |-> <<"UDF strategy execution complete">> ])
                     ELSE Return(DynamicFailure(result.error.s,
                                                "UDF execution failed: " \o result.error.s))

\* The three steps of the standard pipeline (aiq_aira.nodes), each answering
\* with a partial update computed from the state it is handed.
QueryLists == {<<>>, <<"q1">>, <<"q1", "q2">>}

generate_query(st, queries) == [queries |-> queries]

web_research(st) ==
    [ web_research_results |-> [i \in 1..Len(st.queries) |-> "results for " \o st.queries[i]],
      citations |-> JoinLines([i \in 1..Len(st.queries) |-> "source of " \o st.queries[i]]) ]

summarize_sources(st) ==
    [ running_summary |->
          IF st.web_research_results = <<>> THEN ""
          ELSE "summary of " \o ToString(Len(st.web_research_results)) \o " results" ]

\* dict.update on the node's own copy of the state: plain replacement.
DictUpdate(st, upd) == [k \in DOMAIN st |-> IF k \in DOMAIN upd THEN upd[k] ELSE st[k]]

\* A call of a collaborator step: the state it was handed and how it ended.
Step(name, st, out) == [step |-> name, saw |-> st, out |-> out]

MutStepSeesNodeInput(st, upd) == st

\* state.update(result) between the steps: the next step is handed the
\* state with the previous step's partial update in it.
Propagate(st, upd) == DictUpdate(st, upd)

MutSimpleRagReturnsQueries(st, queries, fail_at) ==
    LET r1 == IF fail_at = 1 THEN Raise("generate_query failed")
              ELSE Return(generate_query(st, queries))
        s1 == <<Step("generate_query", st, r1)>>
    IN  IF ~r1.ok THEN [out |-> r1, steps |-> s1]
        ELSE
        LET st1 == Propagate(st, r1.val)
            r2 == IF fail_at = 2 THEN Raise("web_research failed")
                  ELSE Return(web_research(st1))
            s2 == Append(s1, Step("web_research", st1, r2))
        IN  IF ~r2.ok THEN [out |-> r2, steps |-> s2]
            ELSE
            LET st2 == Propagate(st1, r2.val)
                r3 == IF fail_at = 3 THEN Raise("summarize_sources failed")
                      ELSE Return(summarize_sources(st2))
                s3 == Append(s2, Step("summarize_sources", st2, r3))
            IN  IF ~r3.ok THEN [out |-> r3, steps |-> s3]
                ELSE
                LET st3 == Propagate(st2, r3.val)
                IN  [ out |-> Return([ queries |-> st3.queries,
                                       web_research_results |-> st3.web_research_results,
                                       running_summary |->
                                           dict_get(st3, "running_summary", ""),
                                       citations |-> dict_get(st3, "citations", ""),
                                       logs |-> <<"Simple RAG pipeline complete">> ]),
                      steps |-> s3 ]

\* The body of simple_rag_pipeline: its outcome and the steps it invoked.
\* fail_at names the step that raises (0: none).
simple_rag_run(st, queries, fail_at) ==
    LET r1 == IF fail_at = 1 THEN Raise("generate_query failed")
              ELSE Return(generate_query(st, queries))
        s1 == <<Step("generate_query", st, r1)>>
    IN  IF ~r1.ok THEN [out |-> r1, steps |-> s1]
        ELSE
        LET st1 == Propagate(st, r1.val)
            r2 == IF fail_at = 2 THEN Raise("web_research failed")
                  ELSE Return(web_research(st1))
            s2 == Append(s1, Step("web_research", st1, r2))
        IN  IF ~r2.ok THEN [out |-> r2, steps |-> s2]
            ELSE
            LET st2 == Propagate(st1, r2.val)
                r3 == IF fail_at = 3 THEN Raise("summarize_sources failed")
                      ELSE Return(summarize_sources(st2))
                s3 == Append(s2, Step("summarize_sources", st2, r3))
            IN  IF ~r3.ok THEN [out |-> r3, steps |-> s3]
                ELSE
                LET st3 == Propagate(st2, r3.val)
                IN  [ out |-> Return([ running_summary |->
                                           dict_get(st3, "running_summary", ""),
                                       citations |-> dict_get(st3, "citations", ""),
                                       logs |-> <<"Simple RAG pipeline complete">> ]),
                      steps |-> s3 ]

\* simple_rag_pipeline
simple_rag_pipeline(st, queries, fail_at) == simple_rag_run(st, queries, fail_at).out

\* finalize_summary (aiq_aira.nodes): renders the report, may leave the key
\* out, may raise.
FinalizeKinds == {"report", "nokey", "raise"}

finalize_summary(st, kind) ==
    CASE kind = "raise" -> Raise("finalize_summary failed")
      [] kind = "nokey" -> Return(EmptyDict)
      [] OTHER ->
            Return([final_report |->
                        IF st.citations = "" THEN st.running_summary
                        ELSE st.running_summary \o "\n\nSources\n" \o st.citations])

MutFinalReportPrefersUdfReport(st, kind) ==
    LET finalize_result == finalize_summary(st, kind)
    IN  IF ~finalize_result.ok THEN finalize_result
        ELSE Return([ final_report |->
                          dict_get(finalize_result.val, "final_report",
                                   dict_get(st.udf_result, "report",
                                            dict_get(st, "running_summary", ""))),
                      logs |-> <<"Research complete! Report ready for download.">> ])

MutFinalReportDefaultsEmpty(st, kind) ==
    LET finalize_result == finalize_summary(st, kind)
    IN  IF ~finalize_result.ok THEN finalize_result
        ELSE Return([ final_report |-> dict_get(finalize_result.val, "final_report", ""),
                      logs |-> <<"Research complete! Report ready for download.">> ])

\* final_report_node
final_report_node(st, kind) ==
    LET finalize_result == finalize_summary(st, kind)
    IN  IF ~finalize_result.ok THEN finalize_result
        ELSE Return([ final_report |->
                          dict_get(finalize_result.val, "final_report",
                                   dict_get(st, "running_summary", "")),
                      logs |-> <<"Research complete! Report ready for download.">> ])

----------------------------------------------------------------------------
(* The graph of create_hackathon_agent_graph and the engine that walks it *)

entry_point == "planner"

MutConditionalEdgesLoopBack ==
    [planner |-> [dynamic_strategy |-> "dynamic_strategy", simple_rag |-> "planner"]]

\* add_conditional_edges("planner", route_after_planner, {...})
conditional_edges ==
    [planner |-> [dynamic_strategy |-> "dynamic_strategy", simple_rag |-> "simple_rag"]]

MutEdgesChainBranches ==
    [dynamic_strategy |-> "simple_rag", simple_rag |-> "final_report", final_report |-> "END"]

\* add_edge(...)
edges ==
    [dynamic_strategy |-> "final_report", simple_rag |-> "final_report", final_report |-> "END"]

MutAfterNodeUnconditional(n) == IF n = "planner" THEN "simple_rag" ELSE edges[n]

\* Where the engine goes when node n has returned.
AfterNode(n) == IF n \in DOMAIN conditional_edges THEN "route" ELSE edges[n]

\* The literal progress messages a node hands to the stream writer and does
\* not return in its update.
ProgressMessages ==
    [ planner |-> <<"Analyzing research complexity...">>,
      dynamic_strategy |-> << "Executing dynamic UDF strategy...",
                              "Compiling strategy to executable code...",
                              "UDF execution completed successfully" >>,
      simple_rag |-> << "Generating research queries...",
                        "Conducting research...",
                        "Research complete",
                        "Synthesizing report...",
                        "Report synthesized" >>,
      final_report |-> << "Finalizing report with citations...",
                          "Report finalized and ready!" >> ]

MutRunNodeLogsProgress(n, out) ==
    /\ calls' = Append(calls, n)
    /\ IF out.ok
       THEN /\ state' = ApplyUpdate(state,
                                    [out.val EXCEPT !.logs = <<ProgressMessages[n][1]>> \o @])
            /\ events' = Append(events, [node |-> n, update |-> out.val])
            /\ pc' = AfterNode(n)
            /\ raised' = raised
       ELSE /\ pc' = IF out.base THEN "crashed" ELSE "failed"
            /\ raised' = out.exc
            /\ UNCHANGED <<state, events>>
    /\ UNCHANGED <<config, response>>

\* The engine runs node n with outcome out: a returned update is merged and
\* streamed, an exception ends the run.
RunNode(n, out) ==
    /\ calls' = Append(calls, n)
    /\ IF out.ok
       THEN /\ state' = ApplyUpdate(state, out.val)
            /\ events' = Append(events, [node |-> n, update |-> out.val])
            /\ pc' = AfterNode(n)
            /\ raised' = raised
       ELSE /\ pc' = IF out.base THEN "crashed" ELSE "failed"
            /\ raised' = out.exc
            /\ UNCHANGED <<state, events>>
    /\ UNCHANGED <<config, response>>

\* A call of a tool adapter: its arguments, whether it went to its
\* collaborator and what that answered, and how the adapter ended.
ToolCall(tool, args, requested, reply, out) ==
    [ tool |-> tool, args |-> args, requested |-> requested,
      reply |-> IF requested THEN reply ELSE NotCalled, out |-> out ]

\* No tool adapter has been called.
NoToolCall == ToolCall("", <<>>, FALSE, NotCalled, NotCalled)

NoResponse ==
    [ status |-> 0, final_report |-> "", citations |-> "", logs |-> <<>>,
      execution_path |-> "", detail |-> "" ]

\* No concurrent runs.
NoRuns == <<>>

\* The state of a request in generate_research, before agent_graph.ainvoke.
Init ==
    /\ \E topic \in Topics, org \in ReportOrgs, collection \in Collections,
          search_web \in BOOLEAN :
            state = InitialState(topic, org, collection, search_web)
    /\ config \in [udf_integration : BOOLEAN]
    /\ pc = "START"
    /\ calls = <<>>
    /\ events = <<>>
    /\ raised = ""
    /\ response = NoResponse
    /\ sandbox = NoSandbox
    /\ planner_call = NotCalled
    /\ compiler_call = NotCalled
    /\ steps = <<>>
    /\ tool_call = NoToolCall
    /\ modules = FreshModules
    /\ runs = NoRuns

\* agent_graph.ainvoke(initial_state, request_config)
Start ==
    /\ pc = "START"
    /\ pc' = entry_point
    /\ UNCHANGED <<state, config, calls, events, raised, response, sandbox,
                   planner_call, compiler_call, steps, tool_call, modules, runs>>

Planner ==
    /\ pc = "planner"
    /\ \E llm \in PlannerCalls :
        /\ RunNode("planner", planner_node(state, llm))
        /\ planner_call' = llm
    /\ UNCHANGED <<sandbox, compiler_call, steps, tool_call, modules, runs>>

MutRouteAlwaysStandard ==
    /\ pc = "route"
    /\ calls' = Append(calls, "route_after_planner")
    /\ pc' = "simple_rag"
    /\ UNCHANGED <<state, config, events, raised, response, sandbox,
                   planner_call, compiler_call, steps, tool_call, modules, runs>>

Route ==
    /\ pc = "route"
    /\ calls' = Append(calls, "route_after_planner")
    /\ pc' = conditional_edges["planner"][route_after_planner(state)]
    /\ UNCHANGED <<state, config, events, raised, response, sandbox,
                   planner_call, compiler_call, steps, tool_call, modules, runs>>

DynamicStrategy ==
    /\ pc = "dynamic_strategy"
    /\ \E call \in CompilerCalls :
        /\ RunNode("dynamic_strategy", dynamic_strategy_node(state, config, call, modules))
        /\ sandbox' = IF config.udf_integration THEN SandboxOf(call, modules) ELSE sandbox
        /\ compiler_call' = IF config.udf_integration THEN call ELSE compiler_call
        /\ modules' = IF config.udf_integration THEN ModulesAfter(call, modules) ELSE modules
    /\ UNCHANGED <<planner_call, steps, tool_call, runs>>

SimpleRag ==
    /\ pc = "simple_rag"
    /\ \E queries \in QueryLists, fail_at \in 0..3 :
        /\ RunNode("simple_rag", simple_rag_pipeline(state, queries, fail_at))
        /\ steps' = steps \o simple_rag_run(state, queries, fail_at).steps
    /\ UNCHANGED <<sandbox, planner_call, compiler_call, tool_call, modules, runs>>

FinalReport ==
    /\ pc = "final_report"
    /\ \E kind \in FinalizeKinds : RunNode("final_report", final_report_node(state, kind))
    /\ UNCHANGED <<sandbox, planner_call, compiler_call, steps, tool_call, modules, runs>>

\* generate_research after ainvoke: the response model, or HTTP 500.
ResearchResponse(final_state) ==
    [ status |-> 200,
      final_report |-> dict_get(final_state, "final_report", ""),
      citations |-> dict_get(final_state, "citations", ""),
      logs |-> dict_get(final_state, "logs", <<>>),
      execution_path |->
          IF dict_get(dict_get(final_state, "udf_result", EmptyDict), "success", FALSE)
          THEN "UDF" ELSE "Simple RAG",
      detail |-> "" ]

HTTPException(e) ==
    [ status |-> 500, final_report |-> "", citations |-> "", logs |-> <<>>,
      execution_path |-> "", detail |-> "Research generation failed: " \o e ]

Respond ==
    /\ pc \in {"END", "failed"}
    /\ response' = IF pc = "END" THEN ResearchResponse(state) ELSE HTTPException(raised)
    /\ pc' = "responded"
    /\ UNCHANGED <<state, config, calls, events, raised, sandbox,
                   planner_call, compiler_call, steps, tool_call, modules, runs>>

Next ==
    \/ Start
    \/ Planner
    \/ Route
    \/ DynamicStrategy
    \/ SimpleRag
    \/ FinalReport
    \/ Respond

Spec == Init /\ [][Next]_vars

----------------------------------------------------------------------------
(* route_after_planner on its own: the router applied to any state the     *)
(* graph may be resumed from, whatever its plan text.                      *)

PlanTexts == PlannerTexts

RouteStates ==
    LET full == { [InitialState(topic, "intro/analysis/conclusion", collection, search_web)
                     EXCEPT !.plan = p, !.udf_strategy = u] :
                    topic \in Topics, collection \in Collections, search_web \in BOOLEAN,
                    p \in PlanTexts, u \in {"", "steps"} }
    IN  full \cup {[k \in DOMAIN st \ {"plan"} |-> st[k]] : st \in {f \in full : f.plan = EmptyText}}

InitRoute ==
    /\ state \in RouteStates
    /\ config \in [udf_integration : BOOLEAN]
    /\ pc = "route"
    /\ calls = <<>>
    /\ events = <<>>
    /\ raised = ""
    /\ response = NoResponse
    /\ sandbox = NoSandbox
    /\ planner_call = NotCalled
    /\ compiler_call = NotCalled
    /\ steps = <<>>
    /\ tool_call = NoToolCall
    /\ modules = FreshModules
    /\ runs = NoRuns

SpecRoute == InitRoute /\ [][Route]_vars

----------------------------------------------------------------------------
(* The tool adapters on their own: each adapter called with any argument   *)
(* generated code may pass, against any behaviour of its collaborator.     *)

ToolQueries == {PyStr("tariffs"), PyStr(""), PyNone, PyInt}
ToolCollections == {PyStr("docs"), PyNone}

Finding(d) == SrcDict(d)
SynthData ==
    { PyList(<<>>),
      PyList(<<Finding([source |-> "web", content |-> "text"])>>),
      PyList(<<Finding([source |-> "rag", content |-> "answer"]), Finding([content |-> "text"])>>),
      PyList(<<SrcStr>>),
      PyList(<<Finding([source |-> "web", content |-> "text"]), SrcStr>>),
      PyDict(<<SrcStr, SrcStr, SrcStr>>),     \* the record search_rag returned
      PyDict(<<>>),
      PyStr("text"),
      PyStr(""),
      PyNone,
      PyInt }

\* state is the RunState of the run whose generated code makes the calls:
\* dynamic_strategy_node copies its search_web flag into the context record.
InitTools ==
    /\ \E search_web \in BOOLEAN :
          state = InitialState("tariffs", "intro/analysis/conclusion", "", search_web)
    /\ config = [udf_integration |-> TRUE]
    /\ pc = "tool"
    /\ calls = <<>>
    /\ events = <<>>
    /\ raised = ""
    /\ response = NoResponse
    /\ sandbox = NoSandbox
    /\ planner_call = NotCalled
    /\ compiler_call = NotCalled
    /\ steps = <<>>
    /\ tool_call = NoToolCall
    /\ modules = FreshModules
    /\ runs = NoRuns

\* await search_rag(query, collection)
SearchRag ==
    /\ pc = "tool"
    /\ \E query \in ToolQueries, collection \in ToolCollections, reply \in RagReplies :
          tool_call' = ToolCall("search_rag", <<query, collection>>, Sliceable(query),
                                reply, search_rag_tool(query, collection, reply))
    /\ UNCHANGED <<state, config, pc, calls, events, raised, response, sandbox,
                   planner_call, compiler_call, steps, modules, runs>>

\* await search_web(query)
SearchWeb ==
    /\ pc = "tool"
    /\ \E query \in ToolQueries, key \in TavilyKeys, reply \in WebReplies :
          tool_call' = ToolCall("search_web", <<query, key>>, WebRequested(query, key),
                                reply, search_web_tool(query, key, reply))
    /\ UNCHANGED <<state, config, pc, calls, events, raised, response, sandbox,
                   planner_call, compiler_call, steps, modules, runs>>

\* await synthesize_findings(data)
SynthesizeFindings ==
    /\ pc = "tool"
    /\ \E data \in SynthData, reply \in SynthReplies :
          LET out == synthesize_findings_tool(data, reply)
          IN  tool_call' = ToolCall("synthesize_findings", <<data>>,
                                    out.ok \/ out.exc \notin {"TypeError", "AttributeError"},
                                    reply, out)
    /\ UNCHANGED <<state, config, pc, calls, events, raised, response, sandbox,
                   planner_call, compiler_call, steps, modules, runs>>

NextTools ==
    \/ SearchRag
    \/ SearchWeb
    \/ SynthesizeFindings

SpecTools == InitTools /\ [][NextTools]_vars

----------------------------------------------------------------------------
(* Concurrent requests.  generate_research builds initial_state and        *)
(* request_config per request and awaits the one agent_graph; the nodes    *)
(* share agent_config and the one UDFIntegration, whose executor builds    *)
(* execution_log, sources and namespace per call and puts the module       *)
(* objects json, asyncio and logger into every namespace.  Each run also   *)
(* carries the course it takes when it is the only run of the process      *)
(* (alone), fed with the same collaborator answers.                        *)

RunIds == {1, 2}
RunTopics == <<"tariffs", "chips">>

\* initial_state of request r
NewRun(r) ==
    LET begin == [ state |-> InitialState(RunTopics[r], "intro/analysis/conclusion",
                                          "docs", TRUE),
                   pc |-> "START", raised |-> "", response |-> NoResponse ]
    IN  [ state |-> begin.state, pc |-> begin.pc, raised |-> begin.raised,
          response |-> begin.response, alone |-> begin,
          compiler_call |-> NotCalled, sandbox |-> NoSandbox ]

SharedPlannerCalls ==
    { Return(Text("json", JObj([strategy |-> "SIMPLE_RAG", rationale |-> "simple"]))),
      Return(Text("json", JObj([strategy |-> "DYNAMIC_STRATEGY", rationale |-> "complex",
                                plan |-> "steps"]))),
      Raise("TimeoutError") }

SharedCompilerCalls ==
    { Return(<<"src_web", "return_stash">>),
      Return(<<"src_rag", "return_unstash">>),
      Return(<<"log", "src_web", "return_ok">>),
      Return(<<"log", "raise">>),
      Return(<<"exit">>),
      Raise("ConnectionError") }

\* The engine's step for one run: merge the node's update and follow the
\* edge, or abort the run with the node's exception.
NodeStep(run, n, out) ==
    IF out.ok
    THEN [run EXCEPT !.state = ApplyUpdate(@, out.val), !.pc = AfterNode(n)]
    ELSE [run EXCEPT !.pc = IF out.base THEN "crashed" ELSE "failed", !.raised = out.exc]

\* Run r takes the step (live), and so does its course alone.
StepRun(r, live, alone) ==
    runs' = [runs EXCEPT ![r] = [live EXCEPT !.alone = alone]]

InitRuns ==
    /\ state = InitialState("tariffs", "intro/analysis/conclusion", "docs", TRUE)
    /\ config = [udf_integration |-> TRUE]
    /\ pc = "serving"
    /\ calls = <<>>
    /\ events = <<>>
    /\ raised = ""
    /\ response = NoResponse
    /\ sandbox = NoSandbox
    /\ planner_call = NotCalled
    /\ compiler_call = NotCalled
    /\ steps = <<>>
    /\ tool_call = NoToolCall
    /\ modules = FreshModules
    /\ runs = [r \in RunIds |-> NewRun(r)]

StartRun(r) ==
    /\ runs[r].pc = "START"
    /\ StepRun(r, [runs[r] EXCEPT !.pc = entry_point],
                  [runs[r].alone EXCEPT !.pc = entry_point])
    /\ UNCHANGED <<state, config, pc, calls, events, raised, response, sandbox,
                   planner_call, compiler_call, steps, tool_call, modules>>

PlannerRun(r) ==
    /\ runs[r].pc = "planner"
    /\ \E llm \in SharedPlannerCalls :
          StepRun(r, NodeStep(runs[r], "planner", planner_node(runs[r].state, llm)),
                     NodeStep(runs[r].alone, "planner",
                              planner_node(runs[r].alone.state, llm)))
    /\ UNCHANGED <<state, config, pc, calls, events, raised, response, sandbox,
                   planner_call, compiler_call, steps, tool_call, modules>>

RouteRun(r) ==
    /\ runs[r].pc = "route"
    /\ StepRun(r, [runs[r] EXCEPT !.pc =
                        conditional_edges["planner"][route_after_planner(runs[r].state)]],
                  [runs[r].alone EXCEPT !.pc =
                        conditional_edges["planner"][route_after_planner(runs[r].alone.state)]])
    /\ UNCHANGED <<state, config, pc, calls, events, raised, response, sandbox,
                   planner_call, compiler_call, steps, tool_call, modules>>

DynamicStrategyRun(r) ==
    /\ runs[r].pc = "dynamic_strategy"
    /\ \E call \in SharedCompilerCalls :
          /\ StepRun(r, [NodeStep(runs[r], "dynamic_strategy",
                                  dynamic_strategy_node(runs[r].state, config, call, modules))
                            EXCEPT !.compiler_call = call,
                                   !.sandbox = SandboxOf(call, modules)],
                        NodeStep(runs[r].alone, "dynamic_strategy",
                                 dynamic_strategy_node(runs[r].alone.state, config, call,
                                                       FreshModules)))
          /\ modules' = ModulesAfter(call, modules)
    /\ UNCHANGED <<state, config, pc, calls, events, raised, response, sandbox,
                   planner_call, compiler_call, steps, tool_call>>

SimpleRagRun(r) ==
    /\ runs[r].pc = "simple_rag"
    /\ \E queries \in QueryLists, fail_at \in 0..3 :
          StepRun(r, NodeStep(runs[r], "simple_rag",
                              simple_rag_pipeline(runs[r].state, queries, fail_at)),
                     NodeStep(runs[r].alone, "simple_rag",
                              simple_rag_pipeline(runs[r].alone.state, queries, fail_at)))
    /\ UNCHANGED <<state, config, pc, calls, events, raised, response, sandbox,
                   planner_call, compiler_call, steps, tool_call, modules>>

FinalReportRun(r) ==
    /\ runs[r].pc = "final_report"
    /\ \E kind \in FinalizeKinds :
          StepRun(r, NodeStep(runs[r], "final_report", final_report_node(runs[r].state, kind)),
                     NodeStep(runs[r].alone, "final_report",
                              final_report_node(runs[r].alone.state, kind)))
    /\ UNCHANGED <<state, config, pc, calls, events, raised, response, sandbox,
                   planner_call, compiler_call, steps, tool_call, modules>>

\* What generate_research hands back for a run that ended.
Responded(run) ==
    [run EXCEPT !.response = IF run.pc = "END" THEN ResearchResponse(run.state)
                             ELSE HTTPException(run.raised),
                !.pc = "responded"]

RespondRun(r) ==
    /\ runs[r].pc \in {"END", "failed"}
    /\ StepRun(r, Responded(runs[r]), Responded(runs[r].alone))
    /\ UNCHANGED <<state, config, pc, calls, events, raised, response, sandbox,
                   planner_call, compiler_call, steps, tool_call, modules>>

\* The steps of run r.
NextRun(r) ==
    \/ StartRun(r)
    \/ PlannerRun(r)
    \/ RouteRun(r)
    \/ DynamicStrategyRun(r)
    \/ SimpleRagRun(r)
    \/ FinalReportRun(r)
    \/ RespondRun(r)

NextRuns == \E r \in RunIds : NextRun(r)

SpecRuns == InitRuns /\ [][NextRuns]_vars

\* Run r has a step to take: NextRun(r) is enabled.
CanStep(r) == runs[r].pc \notin {"responded", "crashed"}

\* Weak fairness of the steps of run r, WF_vars(NextRun(r)), written out with
\* the state predicate that says when NextRun(r) is enabled: a run that can
\* take a step is not left waiting forever.
FairRun(r) == []<>(~CanStep(r)) \/ []<><<NextRun(r)>>_vars

\* The event loop goes on with every run that can take a step: every
\* collaborator call returns or raises.
SpecRunsLive == SpecRuns /\ \A r \in RunIds : FairRun(r)

----------------------------------------------------------------------------
(* The network-bound awaits of a run that takes the dynamic branch, in the *)
(* order it reaches them.  A call in flight ends when the collaborator     *)
(* answers or when the timeout the call site armed expires.                *)

CallSites ==
    << "planner",               \* chain.astream
       "compile_strategy",      \* chain.ainvoke
       "search_rag",            \* session.post(.../generate)
       "search_web",            \* TavilySearchResults.ainvoke
       "synthesize_findings" >> \* session.post(.../v1/chat/completions)

\* aiohttp.ClientTimeout(total=...), in seconds
RagTimeout == 60
SynthesisTimeout == 120

\* The timeout each call site passes; a site that passes none is absent.
Timeouts == [search_rag |-> RagTimeout, synthesize_findings |-> SynthesisTimeout]

HasTimeout(site) == site \in DOMAIN Timeouts

\* What the collaborator behind a call site may answer.
RepliesOf(site) ==
    CASE site = "planner" -> PlannerCalls
      [] site = "compile_strategy" -> CompilerCalls
      [] site = "search_rag" -> RagReplies
      [] site = "search_web" -> WebReplies
      [] OTHER -> SynthReplies

InitCalls ==
    /\ state = InitialState("tariffs", "intro/analysis/conclusion", "docs", TRUE)
    /\ config = [udf_integration |-> TRUE]
    /\ pc = "running"
    /\ calls = <<>>
    /\ events = <<>>
    /\ raised = ""
    /\ response = NoResponse
    /\ sandbox = NoSandbox
    /\ planner_call = NotCalled
    /\ compiler_call = NotCalled
    /\ steps = <<>>
    /\ tool_call = NoToolCall
    /\ modules = FreshModules
    /\ runs = NoRuns

\* The run reaches its next await.
IssueCall ==
    /\ pc = "running"
    /\ Len(calls) < Len(CallSites)
    /\ LET site == CallSites[Len(calls) + 1]
       IN  /\ calls' = Append(calls, site)
           /\ tool_call' = ToolCall(site, <<>>, TRUE, NotCalled, NotCalled)
    /\ pc' = "waiting"
    /\ UNCHANGED <<state, config, events, raised, response, sandbox,
                   planner_call, compiler_call, steps, modules, runs>>

\* The collaborator answers or raises.
ReplyCall ==
    /\ pc = "waiting"
    /\ \E reply \in RepliesOf(tool_call.tool) :
          tool_call' = ToolCall(tool_call.tool, <<>>, TRUE, reply, reply)
    /\ pc' = "running"
    /\ UNCHANGED <<state, config, calls, events, raised, response, sandbox,
                   planner_call, compiler_call, steps, modules, runs>>

\* The timeout of the call site expires: the await raises TimeoutError.
ExpireCall ==
    /\ pc = "waiting"
    /\ HasTimeout(tool_call.tool)
    /\ tool_call' = ToolCall(tool_call.tool, <<>>, TRUE, NotCalled, Raise("TimeoutError"))
    /\ pc' = "running"
    /\ UNCHANGED <<state, config, calls, events, raised, response, sandbox,
                   planner_call, compiler_call, steps, modules, runs>>

NextCalls ==
    \/ IssueCall
    \/ ReplyCall
    \/ ExpireCall

\* The event loop resumes a run that can go on and fires an armed timer; no
\* collaborator is obliged to answer.
SpecCalls ==
    InitCalls /\ [][NextCalls]_vars /\ WF_vars(IssueCall) /\ WF_vars(ExpireCall)

----------------------------------------------------------------------------
(* The streaming endpoint.  event_stream of generate_research_stream walks *)
(* agent_graph.astream: every pass of its loop lets the engine run the     *)
(* next node (and the router after the planner) and yields the node's      *)
(* update as one server-sent event; after the loop it yields the           *)
(* completion event, and its except clause yields the error event.         *)
(* runs[1] is the stream of the one request: the run state, the nodes that *)
(* returned (executed), the node that raised (failed) and the events       *)
(* yielded so far (stream).                                                *)

StreamCompilerCalls ==
    { Return(<<"log", "src_web", "return_ok">>),
      Return(<<"src_tagged", "return_ok">>),
      Return(<<"src_rag", "return_nokeys">>),
      Return(<<"log", "raise">>),
      Return(<<"return_bad_report">>),
      Return(<<"exit">>),
      Raise("ConnectionError") }

\* json.dumps(event_data) succeeds: every value in the update's sources can
\* be encoded (the other values of an update are texts, booleans and lists
\* of texts); json.dumps raises TypeError on a set.
Serializable(update) ==
    ("udf_result" \in DOMAIN update /\ "sources" \in DOMAIN update.udf_result) =>
        \A i \in 1..Len(update.udf_result.sources) :
            LET src == update.udf_result.sources[i].d
            IN  \A k \in DOMAIN src : src[k] # PySet

\* One pass of the loop over astream for node n with outcome out.  The
\* engine merges a returned update and follows the edge, through the router
\* after the planner; the generator yields the update event.  An exception
\* of the node, or of json.dumps, is caught by the except clause, which
\* yields the error event and ends the generator; a BaseException is not
\* caught.
Yield(run, n, out) ==
    IF out.ok
    THEN LET merged == ApplyUpdate(run.state, out.val)
             ran == [run EXCEPT !.state = merged, !.executed = Append(@, n)]
         IN  IF Serializable(out.val)
             THEN [ran EXCEPT
                     !.pc = IF AfterNode(n) = "route"
                            THEN conditional_edges["planner"][route_after_planner(merged)]
                            ELSE AfterNode(n),
                     !.stream = Append(@, [type |-> "update", node |-> n,
                                           state |-> out.val, message |-> ""])]
             ELSE [ran EXCEPT
                     !.pc = "closed",
                     !.raised = "Object of type set is not JSON serializable",
                     !.stream = Append(@, [type |-> "error", node |-> "", state |-> EmptyDict,
                                           message |-> "Object of type set is not JSON serializable"])]
    ELSE IF out.base
    THEN [run EXCEPT !.pc = "crashed", !.raised = out.exc, !.failed = n]
    ELSE [run EXCEPT !.pc = "closed", !.raised = out.exc, !.failed = n,
                     !.stream = Append(@, [type |-> "error", node |-> "", state |-> EmptyDict,
                                           message |-> out.exc])]

\* The generator before its first pass: initial_state of the request, the
\* graph at its entry point, nothing yielded.
InitStream ==
    /\ state = InitialState("tariffs", "intro/analysis/conclusion", "docs", TRUE)
    /\ config \in [udf_integration : BOOLEAN]
    /\ pc = "streaming"
    /\ calls = <<>>
    /\ events = <<>>
    /\ raised = ""
    /\ response = NoResponse
    /\ sandbox = NoSandbox
    /\ planner_call = NotCalled
    /\ compiler_call = NotCalled
    /\ steps = <<>>
    /\ tool_call = NoToolCall
    /\ modules = FreshModules
    /\ \E collection \in Collections, search_web \in BOOLEAN :
          runs = << [ state |-> InitialState("tariffs", "intro/analysis/conclusion",
                                            collection, search_web),
                      pc |-> entry_point, raised |-> "", executed |-> <<>>,
                      failed |-> "", stream |-> <<>> ] >>

\* A pass of the loop: the engine runs the node the run stands at.
StreamNode ==
    /\ runs[1].pc \in {"planner", "dynamic_strategy", "simple_rag", "final_report"}
    /\ \E llm \in PlannerCalls, call \in StreamCompilerCalls, queries \in QueryLists,
          fail_at \in 0..3, kind \in FinalizeKinds :
          LET n == runs[1].pc
              st == runs[1].state
              out == CASE n = "planner" -> planner_node(st, llm)
                       [] n = "dynamic_strategy" ->
                            dynamic_strategy_node(st, config, call, modules)
                       [] n = "simple_rag" -> simple_rag_pipeline(st, queries, fail_at)
                       [] OTHER -> final_report_node(st, kind)
          IN  /\ runs' = [runs EXCEPT ![1] = Yield(@, n, out)]
              /\ modules' = IF n = "dynamic_strategy" /\ config.udf_integration
                            THEN ModulesAfter(call, modules)
                            ELSE modules
    /\ UNCHANGED <<state, config, pc, calls, events, raised, response, sandbox,
                   planner_call, compiler_call, steps, tool_call>>

\* The loop over astream is exhausted: the completion event.
StreamComplete ==
    /\ runs[1].pc = "END"
    /\ runs' = [runs EXCEPT ![1].pc = "closed",
                            ![1].stream = Append(@, [type |-> "complete", node |-> "",
                                                     state |-> EmptyDict,
                                                     message |-> "Research generation complete"])]
    /\ UNCHANGED <<state, config, pc, calls, events, raised, response, sandbox,
                   planner_call, compiler_call, steps, tool_call, modules>>

NextStream ==
    \/ StreamNode
    \/ StreamComplete

SpecStream == InitStream /\ [][NextStream]_vars

----------------------------------------------------------------------------
(* Properties *)

Branches == {"dynamic_strategy", "simple_rag"}

\* The run got as far as the Finalize node: the planner and a branch returned.
ReachedFinalize == Len(events) >= 2

\* C1: the callables of a run are invoked in the order planner, router, one
\* branch, final_report, each at most once; the router runs only after the
\* planner has returned, Finalize only after the branch has returned, and a
\* run that reaches END has invoked exactly these four.
C1_NodeOrder ==
    /\ \E b \in Branches :
          IsPrefix(calls, <<"planner", "route_after_planner", b, "final_report">>)
    /\ pc = "route" => Len(events) = 1 /\ events[1].node = "planner"
    /\ pc = "final_report" =>
          Len(calls) = 3 /\ Len(events) = 2 /\ events[2].node = calls[3]
    /\ pc = "END" => Len(calls) = 4 /\ Len(events) = 3

C1_Witness ==
    pc = "END" /\ calls = <<"planner", "route_after_planner", "dynamic_strategy", "final_report">>

\* The planning response decodes to a JSON object.
DecodesToObject(text) == text.fmt \in {"json", "fenced"} /\ text.val.t = "obj"

\* C2: when the planning response does not decode to an object, the planner
\* returns the SIMPLE_RAG plan, an empty udf_strategy and the fallback log
\* line, the router then picks simple_rag, and the planner did not raise.
C2_UnparseablePlanFallsBack ==
    (calls # <<>> /\ planner_call.ok /\ ~DecodesToObject(planner_call.val)) =>
        /\ Len(events) >= 1
        /\ events[1].node = "planner"
        /\ events[1].update =
              [ plan |-> Text("json", JObj([strategy |-> "SIMPLE_RAG"])),
                udf_strategy |-> "",
                logs |-> <<"Planning error, defaulting to SIMPLE_RAG">> ]
        /\ state.logs[1] = "Planning error, defaulting to SIMPLE_RAG"
        /\ Len(calls) >= 3 => calls[3] = "simple_rag"

C2_Witness ==
    /\ pc = "simple_rag"
    /\ planner_call.ok
    /\ planner_call.val = Text("json", JArr)

\* C3: when the planning call raises or times out, the run is not aborted:
\* the planner returns the SIMPLE_RAG fallback with its log line.
C3_PlanningCallFailureRecovered ==
    (calls # <<>> /\ ~planner_call.ok) =>
        /\ pc \notin {"failed", "crashed"}
        /\ Len(events) >= 1
        /\ events[1].update.udf_strategy = ""
        /\ state.logs[1] = "Planning error, defaulting to SIMPLE_RAG"
        /\ Len(calls) >= 3 => calls[3] = "simple_rag"

\* The branch the claim names for a state, from its plan text alone.
ExpectedBranch(st) ==
    IF /\ "plan" \in DOMAIN st
       /\ st.plan.fmt = "json"
       /\ st.plan.val.t = "obj"
       /\ "strategy" \in DOMAIN st.plan.val.f
       /\ st.plan.val.f["strategy"] = "DYNAMIC_STRATEGY"
    THEN "dynamic_strategy"
    ELSE "simple_rag"

\* C4: the router returns dynamic_strategy exactly when the plan text is a
\* JSON object whose strategy is DYNAMIC_STRATEGY, simple_rag for any other
\* plan, whatever the other fields hold, and leaves the state as it was.
C4_RoutePureFunctionOfPlan ==
    [][pc = "route" => (state' = state /\ pc' = ExpectedBranch(state))]_vars

C4_Witness ==
    /\ pc = "simple_rag"
    /\ calls = <<"route_after_planner">>
    /\ "plan" \in DOMAIN state
    /\ state.plan.fmt = "fenced"
    /\ ExpectedBranch([state EXCEPT !.plan = json_dumps(state.plan.val)]) = "dynamic_strategy"

RECURSIVE LogDeltas(_)
LogDeltas(evs) ==
    IF evs = <<>> THEN <<>>
    ELSE LogDeltas(SubSeq(evs, 1, Len(evs) - 1)) \o evs[Len(evs)].update.logs

\* C5: every step extends the log at its end, and the log is the log deltas
\* of the executed nodes in the order the nodes were called.
C5_LogAppendOnly ==
    [][IsPrefix(state.logs, state'.logs) /\ state'.logs = LogDeltas(events')]_vars

C5_Witness == pc = "END" /\ Len(state.logs) = 3

\* The branches whose update wrote running_summary and citations.
Writers ==
    { events[i].node : i \in { j \in 1..Len(events) :
        /\ events[j].node \in Branches
        /\ {"running_summary", "citations"} \subseteq DOMAIN events[j].update } }

DynamicFailed ==
    /\ "success" \in DOMAIN state.udf_result
    /\ ~state.udf_result.success

\* C6 as stated: in a run that reached Finalize exactly one branch has
\* written running_summary and citations.
C6_ExactlyOneWriter == ReachedFinalize => Cardinality(Writers) = 1

\* C6 amended: in a run that reached Finalize the executed branch is the only
\* writer of running_summary and citations, and it wrote them unless it was
\* the dynamic branch and failed, in which case no branch wrote them.
C6_AtMostOneWriter ==
    ReachedFinalize =>
        Writers = IF DynamicFailed THEN {} ELSE {calls[3]}

C6_Witness == pc = "END" /\ Writers = {} /\ calls[3] = "dynamic_strategy"

NonEmptyStr(x) == x.t = "str" /\ x.s # ""

\* C7: a result of execute_dynamic_strategy has either success and a
\* non-empty report, or failure and a non-empty error.
C7_ResultWellFormed ==
    sandbox.returned =>
        IF sandbox.result.success
        THEN NonEmptyStr(sandbox.result.synthesized_report)
        ELSE NonEmptyStr(sandbox.result.error)

\* The dict the generated code returned has a field of the wrong type.
Malformed(d) ==
    \/ "report" \in DOMAIN d /\ d["report"].t # "str"
    \/ "sources" \in DOMAIN d /\
          (d["sources"].t # "list" \/ \E i \in 1..Len(d["sources"].l) : d["sources"].l[i].t # "dict")
    \/ "log" \in DOMAIN d /\ d["log"].t # "list"

\* The generated code did not run to a well-formed record: a syntax error or
\* an Exception, a value that is no dict, or a dict with a malformed field.
SandboxError(code) ==
    LET run == Sandbox(code, modules)
    IN  \/ run.how = "raise"
        \/ run.how = "return" /\ run.ret.t # "dict"
        \/ run.how = "return" /\ Malformed(run.ret.d)

\* C8: whatever goes wrong with the generated code, the dynamic branch
\* returns udf_result.success = false with the error, and the run goes on.
C8_SandboxErrorNeverCrashes ==
    (sandbox.executed /\ SandboxError(sandbox.code)) =>
        /\ pc \notin {"failed", "crashed"} \/ calls[Len(calls)] # "dynamic_strategy"
        /\ DynamicFailed
        /\ "error" \in DOMAIN state.udf_result

\* C9: a step in which the dynamic branch returns a failure streams an
\* update of udf_result = {success, error} and one log line only, and leaves
\* running_summary and citations as they were.
C9_FailureLeavesSummary ==
    [][(pc = "dynamic_strategy" /\ pc' = "final_report" /\ ~state'.udf_result.success) =>
          /\ DOMAIN events'[Len(events')].update = {"udf_result", "logs"}
          /\ DOMAIN state'.udf_result = {"success", "error"}
          /\ state'.running_summary = state.running_summary
          /\ state'.citations = state.citations
          /\ Len(state'.logs) = Len(state.logs) + 1]_vars

C9_Witness ==
    /\ pc = "final_report"
    /\ DynamicFailed
    /\ sandbox.executed
    /\ sandbox.execution_log # <<>>

\* The compiler's answer holds no statement at all.
NoExtractableCode(text) == \A i \in 1..Len(text) : text[i] \notin Stmts

\* C10: an answer of the compiler without code is a compilation error: the
\* result is a failure whose error starts with the compilation prefix, the
\* executor is not run, and the run is not aborted.
C10_NoCodeIsCompilationError ==
    (sandbox.compiled /\ compiler_call.ok /\ NoExtractableCode(compiler_call.val)) =>
        /\ sandbox.returned
        /\ ~sandbox.result.success
        /\ StartsWith(sandbox.result.error.s, "Compilation error: ")
        /\ ~sandbox.executed
        /\ pc \notin {"failed", "crashed"}

\* The dynamic branch ran, and whether its stored result says it succeeded.
DynamicRan == "dynamic_strategy" \in {calls[i] : i \in 1..Len(calls)}
StandardRan == "simple_rag" \in {calls[i] : i \in 1..Len(calls)}
DynamicSucceeded ==
    /\ DynamicRan
    /\ "success" \in DOMAIN state.udf_result
    /\ state.udf_result.success

\* C11: the execution path of a response is UDF only when the dynamic branch
\* ran and succeeded, and a run whose dynamic branch ran and failed is
\* reported as Simple RAG only when the standard pipeline was executed in it.
C11_ExecutionPathReflectsBranch ==
    response.status = 200 =>
        /\ response.execution_path = "UDF" => DynamicSucceeded
        /\ (DynamicRan /\ DynamicFailed /\ response.execution_path = "Simple RAG")
              => StandardRan

\* The strategy the planning response spells, "" when it spells none.
PlannedStrategy ==
    IF planner_call.ok /\ DecodesToObject(planner_call.val)
       /\ "strategy" \in DOMAIN planner_call.val.val.f
    THEN planner_call.val.val.f["strategy"]
    ELSE ""

\* C12: a run planned SIMPLE_RAG executes the standard pipeline and never the
\* dynamic branch, and its response has the path Simple RAG; a run planned
\* DYNAMIC_STRATEGY whose compiled code the executor ran with success never
\* executes the standard pipeline, and its response has the path UDF with
\* udf_result.success true.
C12_EndToEndPaths ==
    /\ PlannedStrategy = "SIMPLE_RAG" =>
          /\ ~DynamicRan
          /\ Len(calls) >= 3 => calls[3] = "simple_rag"
          /\ response.status = 200 =>
                StandardRan /\ response.execution_path = "Simple RAG"
    /\ (PlannedStrategy = "DYNAMIC_STRATEGY" /\ sandbox.returned /\ sandbox.result.success) =>
          /\ ~StandardRan
          /\ calls[3] = "dynamic_strategy"
          /\ response.status = 200 =>
                /\ response.execution_path = "UDF"
                /\ state.udf_result.success

C12_Witness ==
    /\ response.status = 200
    /\ PlannedStrategy = "DYNAMIC_STRATEGY"
    /\ sandbox.result.success
    /\ response.execution_path = "UDF"
    /\ response.final_report # ""

C12_WitnessSimple ==
    /\ response.status = 200
    /\ PlannedStrategy = "SIMPLE_RAG"
    /\ response.execution_path = "Simple RAG"
    /\ response.final_report # ""

\* C13: the response handed to the caller carries every log entry the run
\* produced, also when a node raised.
C13_ResponseCarriesLogs ==
    pc = "responded" => response.logs = state.logs

\* The names the execution scope is to hold: the three tools, the context
\* record and the two accumulators.
ScopeNames ==
    {"search_rag", "search_web", "synthesize_findings", "context", "execution_log", "sources"}

\* The statements of a code text that read a name outside the scope.
ForeignStmts(code) ==
    {i \in 1..Len(code) : code[i] \in Stmts /\ ~(Uses(code[i]) \subseteq ScopeNames)}

\* C14: no name outside the scope is reachable from the generated code:
\* code that reads another name (a module, the logger, a built-in) finds it
\* undefined, so the executor returns a failed result for it.
C14_ScopeHoldsOnlyTools ==
    (sandbox.executed /\ ValidPython(sandbox.code) /\ ForeignStmts(sandbox.code) # {}) =>
        (sandbox.returned /\ ~sandbox.result.success)

\* The generated code fails in the executor: it does not parse, it raises an
\* Exception, or it returns a value that is no record.
ExecutorFails(code) ==
    LET run == Sandbox(code, modules)
    IN  \/ run.how = "raise"
        \/ run.how = "return" /\ run.ret.t # "dict"

\* The entries a code text appends to the log accumulator before it ends.
AppendedLog(code) ==
    LET n == IF ValidPython(code)
             THEN Cardinality({i \in 1..Len(code) : code[i] = "log"})
             ELSE 0
    IN  [i \in 1..n |-> "step " \o ToString(i)]

\* C15: when the generated code fails after appending n log entries, the
\* result is a failure whose execution log is exactly those n entries in
\* the order they were appended.
C15_FailureKeepsPartialLog ==
    (sandbox.executed /\ ExecutorFails(sandbox.code)) =>
        /\ sandbox.returned
        /\ ~sandbox.result.success
        /\ sandbox.result.execution_log = PyList(AppendedLog(sandbox.code))

C15_Witness ==
    /\ sandbox.executed
    /\ sandbox.code = <<"log", "log", "raise">>
    /\ ~sandbox.result.success
    /\ sandbox.result.execution_log = PyList(<<"step 1", "step 2">>)

\* The generated code returns, and what it returns is no record.
ReturnsNonRecord(code) ==
    LET run == Sandbox(code, modules)
    IN  run.how = "return" /\ run.ret.t # "dict"

\* C16: a returned value that is no record, no return value included, gives
\* a failed result with the validation error, and the dynamic branch stores
\* a failure.
C16_NonRecordIsFailure ==
    (sandbox.executed /\ ReturnsNonRecord(sandbox.code)) =>
        /\ sandbox.returned
        /\ ~sandbox.result.success
        /\ StartsWith(sandbox.result.error.s, "Strategy must return a dict")
        /\ sandbox.result.synthesized_report = PyStr("")
        /\ events[Len(events)].node \in {"dynamic_strategy", "final_report"}
        /\ DynamicFailed

C16_Witness ==
    /\ sandbox.executed
    /\ sandbox.code = <<"log">>
    /\ sandbox.result.error = PyStr("Strategy must return a dict, got NoneType")
    /\ pc = "END"

\* The citation block the claim describes: one line per source, in order,
\* "- [source] " followed by the url of a source that has one, else its title.
RECURSIVE RenderedCitations(_)
RenderedCitations(srcs) ==
    IF srcs = <<>> THEN ""
    ELSE LET last == srcs[Len(srcs)].d
             line == "- [" \o last["source"] \o "] "
                          \o (IF "url" \in DOMAIN last THEN last["url"] ELSE last["title"])
         IN  IF Len(srcs) = 1 THEN line
             ELSE RenderedCitations(SubSeq(srcs, 1, Len(srcs) - 1)) \o "\n" \o line

C18_ToolsNeverRaise ==
    tool_call.tool # "" =>
        /\ tool_call.out.ok
        /\ (tool_call.requested /\ ~tool_call.reply.ok) =>
              CASE tool_call.tool = "search_rag" ->
                      StartsWith(tool_call.out.val.content, "Error searching RAG: ")
                [] tool_call.tool = "search_web" -> tool_call.out.val = <<>>
                [] OTHER -> StartsWith(tool_call.out.val, "Error synthesizing findings: ")

StepNames == <<"generate_query", "web_research", "summarize_sources">>

\* The state a step is handed holds the update of the step before it, and is
\* otherwise the state that step was handed.
SeesUpdateOf(later, earlier) ==
    /\ earlier.out.ok
    /\ DOMAIN later.saw = DOMAIN earlier.saw
    /\ \A k \in DOMAIN later.saw :
          later.saw[k] = IF k \in DOMAIN earlier.out.val THEN earlier.out.val[k]
                         ELSE earlier.saw[k]

\* The last callable the engine invoked was the standard pipeline, and it raised.
StandardFailed == pc = "failed" /\ calls[Len(calls)] = "simple_rag"

\* C19: the standard pipeline invokes its steps in the order generate_query,
\* web_research, summarize_sources, each at most once, the first on the
\* node's state and each later one on the state holding the update of the
\* step before; a step that raises is the last step invoked, the node raises
\* its exception and the state is left as it was; when all three return,
\* the node returns the summary and citations of the last state.  A run
\* whose standard pipeline raised only answers the caller with the failure:
\* no step and no node is invoked after it.
C19_StepFailurePropagates ==
    [][ /\ pc = "simple_rag" =>
              /\ steps = <<>>
              /\ steps' # <<>>
              /\ IsPrefix([i \in 1..Len(steps') |-> steps'[i].step], StepNames)
              /\ steps'[1].saw = state
              /\ \A i \in 2..Len(steps') : SeesUpdateOf(steps'[i], steps'[i - 1])
              /\ IF steps'[Len(steps')].out.ok
                 THEN /\ Len(steps') = 3
                      /\ pc' = "final_report"
                      /\ state'.running_summary = steps'[3].out.val.running_summary
                      /\ state'.citations = steps'[3].saw.citations
                 ELSE /\ pc' = "failed"
                      /\ raised' = steps'[Len(steps')].out.exc
                      /\ state' = state
                      /\ events' = events
        /\ StandardFailed =>
              /\ pc' = "responded"
              /\ response'.status = 500
              /\ calls' = calls
              /\ steps' = steps
      ]_vars

C19_Witness ==
    /\ pc = "responded"
    /\ response.status = 500
    /\ calls = <<"planner", "route_after_planner", "simple_rag">>
    /\ Len(steps) = 2
    /\ steps[2].step = "web_research"
    /\ steps[2].saw.queries = <<"q1", "q2">>
    /\ ~steps[2].out.ok

\* The states that agree with st on everything but plan, udf_strategy and
\* udf_result, which are those another planner answer and another branch
\* would have left.
BranchTraces(st) ==
    { [st EXCEPT !.plan = p, !.udf_strategy = u, !.udf_result = r] :
        p \in {json_dumps(JObj(d)) : d \in Decisions},
        u \in {"", "steps"},
        r \in { EmptyDict,
                [success |-> FALSE, error |-> "boom"],
                [success |-> TRUE, report |-> "another report", sources |-> <<WebSource>>] } }

\* C20: on a state about to be finalized, Finalize ends the same way and
\* produces the same final_report as on any state that differs from it only
\* in plan, udf_strategy and udf_result.
C20_FinalizeIgnoresBranch ==
    pc = "final_report" =>
        \A other \in BranchTraces(state), kind \in FinalizeKinds :
            LET here == final_report_node(state, kind)
                there == final_report_node(other, kind)
            IN  /\ here.ok = there.ok
                /\ here.ok => here.val.final_report = there.val.final_report

C20_Witness ==
    /\ pc = "final_report"
    /\ DynamicSucceeded
    /\ state.running_summary # ""
    /\ \E other \in BranchTraces(state) :
          /\ other.udf_result = EmptyDict
          /\ other.plan # state.plan
          /\ final_report_node(other, "nokey").val.final_report = state.running_summary

\* The Finalize node has returned in this run.
Finalized == events # <<>> /\ events[Len(events)].node = "final_report"

CompileFailed ==
    /\ compiler_call # NotCalled
    /\ compiler_call.ok => NoExtractableCode(compiler_call.val)

\* The error of the failed dynamic branch is embedded in the given log.
EmbedsError(logs) ==
    /\ DynamicFailed
    /\ state.udf_result.error # ""
    /\ \E i \in 1..Len(logs) : logs[i] = "UDF execution failed: " \o state.udf_result.error

\* A dynamic-branch step whose compilation gave no code returns normally with
\* a failed udf_result and hands over to Finalize.
CompileFailureStep ==
    (pc = "dynamic_strategy" /\ CompileFailed') =>
        /\ pc' = "final_report"
        /\ EmbedsError(state.logs)'

\* C22: a dynamic-branch step whose compilation gave no code returns normally
\* with a failed udf_result and hands over to Finalize; such a run never
\* fails in the branch, and once Finalize returned the caller gets a
\* status-200 response whose logs embed the error.
C22_CompileFailureCompletes ==
    /\ [][CompileFailureStep]_vars
    /\ [](CompileFailed =>
            /\ pc \in {"failed", "crashed"} => calls[Len(calls)] = "final_report"
            /\ (pc = "responded" /\ Finalized) =>
                  /\ response.status = 200
                  /\ EmbedsError(response.logs))

C22_Witness ==
    /\ pc = "responded"
    /\ ~compiler_call.ok
    /\ Finalized
    /\ response.status = 200
    /\ EmbedsError(response.logs)

\* What run r holds, without the course it carries along for comparison.
Live(r) ==
    [ state |-> runs[r].state, pc |-> runs[r].pc, raised |-> runs[r].raised,
      response |-> runs[r].response ]

\* C23: concurrent runs are independent: whatever the interleaving, each run's
\* state and response are those it has when it is the only run of the
\* process, and the shared configuration stays as it was built.
C23_RunsIndependent ==
    /\ config = [udf_integration |-> TRUE]
    /\ \A r \in RunIds : Live(r) = runs[r].alone

\* How often callee was called in a sequence of calls.
Count(invoked, callee) == Cardinality({i \in 1..Len(invoked) : invoked[i] = callee})

\* Run r has been through the dynamic branch.
RanDynamic(r) == runs[r].sandbox.compiled

\* C24: every run that went through the dynamic branch called the compiler
\* exactly once and the executor at most once (not at all when the compiler
\* raised, once otherwise, whether or not the code failed), and the code it
\* executed is the code its own compiler call returned, also when an earlier
\* run compiled the same plan.
C24_CompileOnceExecuteOnce ==
    \A r \in RunIds :
        RanDynamic(r) =>
            /\ Count(runs[r].sandbox.invoked, "compile_strategy") = 1
            /\ Count(runs[r].sandbox.invoked, "execute_strategy") =
                  (IF runs[r].compiler_call.ok THEN 1 ELSE 0)
            /\ runs[r].compiler_call.ok =>
                  runs[r].sandbox.code = Strip(runs[r].compiler_call.val)

C24_Witness ==
    /\ \A r \in RunIds : RanDynamic(r)
    /\ runs[1].state.udf_strategy = runs[2].state.udf_strategy
    /\ runs[1].compiler_call.ok /\ runs[2].compiler_call.ok
    /\ runs[1].sandbox.code # runs[2].sandbox.code
    /\ ~runs[1].sandbox.result.success
    /\ runs[2].sandbox.result.success

\* C25: every network-bound call of a run is bounded by an explicit timeout:
\* whenever the run waits for a collaborator, the call site has armed one.
C25_EveryCallHasTimeout == pc = "waiting" => HasTimeout(tool_call.tool)

\* How far the engine is: positions in the order the edges allow them.
Rank(p) ==
    CASE p = "START" -> 0
      [] p = "planner" -> 1
      [] p = "route" -> 2
      [] p \in Branches -> 3
      [] p = "final_report" -> 4
      [] p \in {"END", "failed", "crashed"} -> 5
      [] OTHER -> 6   \* responded

\* A step of run r moves its engine forward, and into END only from Finalize.
MovesForward(r) ==
    runs'[r] # runs[r] =>
        /\ Rank(runs'[r].pc) > Rank(runs[r].pc)
        /\ runs'[r].pc = "END" => runs[r].pc = "final_report"

Planned == events # <<>> /\ events[1].node = "planner"

\* C27: after Plan completes, state.plan decodes to a decision object with a
\* strategy field whose value is SIMPLE_RAG or DYNAMIC_STRATEGY.
C27_StoredStrategyValid ==
    Planned =>
        LET decoded == json_loads(state.plan)
        IN  /\ decoded.ok
            /\ decoded.val.t = "obj"
            /\ "strategy" \in DOMAIN decoded.val.f
            /\ decoded.val.f["strategy"] \in {"SIMPLE_RAG", "DYNAMIC_STRATEGY"}

\* The fields of the state that carry the request.
RequestInputs == {"research_prompt", "report_organization", "collection", "search_web"}

\* What a step of the engine leaves alone.
FrameStep ==
    /\ DOMAIN state' = DOMAIN state
    /\ \A k \in RequestInputs : state'[k] = state[k]
    /\ events' # events =>
          \A k \in DOMAIN state \ DOMAIN events'[Len(events')].update : state'[k] = state[k]
    /\ events' = events => state' = state
    /\ pc \in Branches \cup {"final_report"} =>
          /\ state'.plan = state.plan
          /\ state'.udf_strategy = state.udf_strategy

\* C28: the merge of a node's partial update leaves every field the node did
\* not return as it was; the request inputs never change, and plan and
\* udf_strategy are not changed by the branch nodes and Finalize.
C28_FramePreserved == [][FrameStep]_vars

C28_Witness ==
    /\ pc = "END"
    /\ DynamicRan
    /\ state.udf_strategy = "steps"
    /\ state.plan # EmptyText
    /\ state.final_report # ""
    /\ state.research_prompt = "tariffs" /\ state.collection = "docs"

\* The last tool call was search_web with a text as its query.
WebSearched == tool_call.tool = "search_web" /\ tool_call.args[1].t = "str"

\* No provider key is configured: the key is absent or empty.
NoProviderKey == tool_call.args[2] \in {PyNone, PyStr("")}

\* C29: search_web, called with a query text, returns an empty list without
\* going to the provider when no provider key is configured, goes to the
\* provider when one is, and returns an empty list when the provider call
\* fails; in each case it returns to the calling strategy and does not raise.
C29_WebSearchDegrades ==
    WebSearched =>
        /\ tool_call.out.ok
        /\ tool_call.requested <=> ~NoProviderKey
        /\ NoProviderKey => tool_call.out.val = <<>>
        /\ (tool_call.requested /\ ~tool_call.reply.ok) => tool_call.out.val = <<>>

C29_Witness ==
    /\ WebSearched
    /\ tool_call.args = <<PyStr("tariffs"), PyStr("")>>
    /\ ~tool_call.requested
    /\ tool_call.out = Return(<<>>)

\* The compiler was called in this run and handed back a text.
CompilerAnswered == sandbox.compiled /\ compiler_call.ok

\* The statements of a text, without blank lines, fence markers and prose.
IsStatement(tok) == tok \in Stmts
StatementsOf(text) == SelectSeq(text, IsStatement)

\* C30: whichever way the compiler LLM wrapped a code text without fence
\* marker (bare, between blank lines, in a python fence, in a plain fence,
\* with prose around the fence), compile_strategy yields that code without
\* the surrounding whitespace, and compiling the yielded code again yields
\* it unchanged.
C30_FenceStripping ==
    CompilerAnswered =>
        LET p == StatementsOf(compiler_call.val)
        IN  compiler_call.val \in Wrappings(p) =>
                /\ sandbox.code = p
                /\ compile_strategy(Return(sandbox.code)) = Return(p)
                /\ \A t \in Wrappings(p) : compile_strategy(Return(t)) = Return(sandbox.code)

C30_Witness ==
    /\ CompilerAnswered
    /\ compiler_call.val = <<Prose, Ws, FencePython, Ws, "log", "src_web", "return_ok",
                             Ws, FencePlain, Ws, Prose>>
    /\ sandbox.code = <<"log", "src_web", "return_ok">>

\* C31: a failed result carries no usable output: its report and its sources
\* are empty even when the generated code had accumulated sources before it
\* failed, and the dynamic branch then stores no report, sources, summary or
\* citations in the run state.
C31_FailedResultEmpty ==
    /\ (sandbox.returned /\ ~sandbox.result.success) =>
           /\ sandbox.result.synthesized_report = PyStr("")
           /\ sandbox.result.sources = PyList(<<>>)
    /\ (pc = "final_report" /\ DynamicFailed) =>
           /\ DOMAIN state.udf_result = {"success", "error"}
           /\ state.running_summary = ""
           /\ state.citations = ""

C31_Witness ==
    /\ pc = "final_report"
    /\ DynamicFailed
    /\ sandbox.returned
    /\ ~sandbox.result.success
    /\ sandbox.sources # <<>>

\* The error prefix of a failure of the compiler call.
CompilationPrefix == "Compilation error: "

\* C32: when the compiler call raises, the result is a failure whose error
\* begins with "Compilation error: ", with an empty execution log and empty
\* sources, and the executor is not invoked; every failure that arises in
\* the executor has an error without that prefix.
C32_CompilationPrefixDistinguishes ==
    /\ (sandbox.compiled /\ ~compiler_call.ok) =>
           /\ sandbox.returned
           /\ ~sandbox.result.success
           /\ StartsWith(sandbox.result.error.s, CompilationPrefix)
           /\ sandbox.result.execution_log = PyList(<<>>)
           /\ sandbox.result.sources = PyList(<<>>)
           /\ ~sandbox.executed
           /\ sandbox.invoked = <<"compile_strategy">>
    /\ (sandbox.executed /\ sandbox.returned /\ ~sandbox.result.success) =>
           ~StartsWith(sandbox.result.error.s, CompilationPrefix)

\* C33: once the planner has completed, on a parsed or a fallback response,
\* state.plan decodes to a JSON object, so the router's parse-failure path is
\* not taken and the branch it picks is dynamic_strategy exactly when the
\* decoded strategy equals DYNAMIC_STRATEGY.
C33_StoredPlanDecodes ==
    Planned =>
        LET decoded == json_loads(state.plan)
        IN  /\ decoded.ok
            /\ decoded.val.t = "obj"
            /\ Len(calls) >= 3 =>
                   /\ calls[2] = "route_after_planner"
                   /\ calls[3] =
                         IF dict_get(decoded.val.f, "strategy", "SIMPLE_RAG") = "DYNAMIC_STRATEGY"
                         THEN "dynamic_strategy"
                         ELSE "simple_rag"

C33_Witness ==
    /\ Planned
    /\ planner_call.ok
    /\ planner_call.val.fmt = "fenced"
    /\ ~json_loads(planner_call.val).ok
    /\ Len(calls) >= 3
    /\ calls[3] = "dynamic_strategy"

\* C34: the planner and the router agree: udf_strategy is non-empty only
\* when the router selects dynamic_strategy, and it is empty whenever the
\* router selects simple_rag.  The converse does not hold: the dynamic branch
\* is entered with an empty udf_strategy when the decision names
\* DYNAMIC_STRATEGY without a plan (C34_Witness), and the compiler is then
\* called on the empty plan.
C34_PlannerRouterAgree ==
    Len(calls) >= 3 =>
        /\ state.udf_strategy # "" => calls[3] = "dynamic_strategy"
        /\ calls[3] = "simple_rag" => state.udf_strategy = ""
        /\ calls[3] \in {"dynamic_strategy", "simple_rag"}

C34_Witness ==
    /\ Len(calls) >= 3
    /\ calls[3] = "dynamic_strategy"
    /\ state.udf_strategy = ""
    /\ sandbox.compiled
    /\ sandbox.invoked[1] = "compile_strategy"

\* C35: when the dynamic branch runs without a UDF integration in the
\* configuration, its update is udf_result {success: false, error: "UDF
\* integration not configured"} and one log entry, neither the compiler nor
\* the executor is invoked, and the run goes on to final_report.
C35_UnconfiguredIntegration ==
    [][(pc = "dynamic_strategy" /\ ~config.udf_integration) =>
          /\ pc' = "final_report"
          /\ events'[Len(events')].node = "dynamic_strategy"
          /\ DOMAIN events'[Len(events')].update = {"udf_result", "logs"}
          /\ state'.udf_result =
                [success |-> FALSE, error |-> "UDF integration not configured"]
          /\ Len(events'[Len(events')].update.logs) = 1
          /\ Len(state'.logs) = Len(state.logs) + 1
          /\ compiler_call' = NotCalled
          /\ sandbox' = NoSandbox]_vars

C35_Witness ==
    /\ "final_report" \in {calls[i] : i \in 1..Len(calls)}
    /\ DynamicRan
    /\ ~config.udf_integration
    /\ state.udf_result = [success |-> FALSE, error |-> "UDF integration not configured"]
    /\ compiler_call = NotCalled

\* The record the last statement of a code text returns, given the
\* accumulators at that point.
ReturnedRecord(code) ==
    LET stmts == StatementsOf(code)
    IN  ReturnedDict(stmts[Len(stmts)], sandbox.execution_log, sandbox.sources)

\* C36: on a successful execution the result's report, sources and log are
\* the report, sources and log fields of the returned record, each empty when
\* the record has no such key; what the code appended to the accumulators
\* without returning it is not in the result.
C36_SuccessFromReturnedRecord ==
    (sandbox.executed /\ sandbox.returned /\ sandbox.result.success) =>
        LET ret == ReturnedRecord(sandbox.code)
        IN  /\ sandbox.result.synthesized_report =
                   IF "report" \in DOMAIN ret THEN ret.report ELSE PyStr("")
            /\ sandbox.result.sources =
                   IF "sources" \in DOMAIN ret THEN ret.sources ELSE PyList(<<>>)
            /\ sandbox.result.execution_log =
                   IF "log" \in DOMAIN ret THEN ret.log ELSE PyList(<<>>)
            /\ StatementsOf(sandbox.code)[Len(StatementsOf(sandbox.code))]
                   \in {"return_fresh", "return_nokeys"} =>
                   /\ sandbox.result.sources = PyList(<<>>)
                   /\ sandbox.result.execution_log = PyList(<<>>)

C36_Witness ==
    /\ sandbox.executed
    /\ sandbox.returned
    /\ sandbox.result.success
    /\ sandbox.sources # <<>>
    /\ sandbox.execution_log # <<>>
    /\ sandbox.result.sources = PyList(<<>>)
    /\ sandbox.result.execution_log = PyList(<<>>)
    /\ sandbox.result.synthesized_report = PyStr("")

\* The run went through final_report to END.
ReachedEnd == pc = "END" \/ (pc = "responded" /\ response.status = 200)

\* The messages that go through the stream writer only.
WriterOnly ==
    UNION {{ProgressMessages[n][i] : i \in 1..Len(ProgressMessages[n])} :
           n \in DOMAIN ProgressMessages}

\* C37: in a run that reached END the log holds exactly three entries: the
\* planner's (strategy decision or planning-error fallback), the executed
\* branch's (dynamic success or failure, or standard pipeline completion)
\* and the finalize entry, in this order; no message that went through the
\* stream writer only is in the log, and the response carries this log.
C37_ThreeLogEntries ==
    ReachedEnd =>
        /\ Len(state.logs) = 3
        /\ \/ StartsWith(state.logs[1], "Strategy: ")
           \/ state.logs[1] = "Planning error, defaulting to SIMPLE_RAG"
        /\ IF DynamicRan
           THEN \/ state.logs[2] = "UDF strategy execution complete" /\ state.udf_result.success
                \/ /\ ~state.udf_result.success
                   /\ \/ StartsWith(state.logs[2], "UDF execution failed: ")
                      \/ state.logs[2] = "UDF integration not configured"
           ELSE StandardRan /\ state.logs[2] = "Simple RAG pipeline complete"
        /\ state.logs[3] = "Research complete! Report ready for download."
        /\ \A i \in 1..3 : state.logs[i] \notin WriterOnly
        /\ response.status = 200 => response.logs = state.logs

C37_Witness ==
    /\ pc = "responded"
    /\ response.status = 200
    /\ Len(response.logs) = 3
    /\ response.logs[1] = "Planning error, defaulting to SIMPLE_RAG"
    /\ response.logs[2] = "Simple RAG pipeline complete"
    /\ Len(steps) = 3

\* The nodes of the update events of a stream, in order.
UpdateNodes(stream) ==
    LET updates == SelectSeq(stream, LAMBDA e : e.type = "update")
    IN  [i \in 1..Len(updates) |-> updates[i].node]

\* The terminal events of a stream.
Terminals(stream) == SelectSeq(stream, LAMBDA e : e.type \in {"complete", "error"})

\* C38: the stream holds one update event per executed node, in execution
\* order (planner, the chosen branch, final_report); a stream that ended holds
\* exactly one terminal event, as its last event: complete when the run
\* finished, error when a node raised; a stream never holds both and no
\* update event follows the terminal event.
C38_StreamProtocol ==
    LET run == runs[1]
        terminals == Terminals(run.stream)
    IN  /\ UpdateNodes(run.stream) = run.executed
        /\ IsPrefix(run.executed, <<"planner", "dynamic_strategy", "final_report">>)
              \/ IsPrefix(run.executed, <<"planner", "simple_rag", "final_report">>)
        /\ Len(terminals) <= 1
        /\ terminals # <<>> => run.stream[Len(run.stream)] = terminals[1]
        /\ run.pc \in {"closed", "crashed"} =>
              /\ Len(terminals) = 1
              /\ terminals[1].type = "complete" <=>
                    (run.failed = "" /\ run.executed # <<>>
                        /\ run.executed[Len(run.executed)] = "final_report")
              /\ terminals[1].type = "error" <=> run.failed # ""
        /\ run.pc \notin {"closed", "crashed"} => terminals = <<>>

\* C39: in a run whose request has search_web false, the search_web binding
\* of the generated code does not go to the web-search provider.
C39_WebSearchHonoursFlag ==
    (tool_call.tool = "search_web" /\ ~state.search_web) => ~tool_call.requested

\* C40: the update the standard pipeline returns to the engine holds only
\* running_summary, citations and one log entry; the queries and the web
\* research results of its inner steps stay in the node's local copy, so
\* state.queries and state.web_research_results are the same after the
\* branch as before it.
C40_StandardUpdateFrame ==
    [][(pc = "simple_rag" /\ pc' = "final_report") =>
          LET update == events'[Len(events')].update
          IN  /\ events'[Len(events')].node = "simple_rag"
              /\ DOMAIN update = {"running_summary", "citations", "logs"}
              /\ Len(update.logs) = 1
              /\ state'.queries = state.queries
              /\ state'.web_research_results = state.web_research_results
              /\ steps'[2].saw.queries = steps'[1].out.val.queries
              /\ steps'[3].saw.web_research_results =
                     steps'[2].out.val.web_research_results]_vars

C40_Witness ==
    /\ pc = "final_report"
    /\ StandardRan
    /\ Len(steps) = 3
    /\ steps[1].out.val.queries = <<"q1", "q2">>
    /\ steps[2].out.val.web_research_results # <<>>
    /\ state.queries = <<>>
    /\ state.web_research_results = <<>>
    /\ state.running_summary # ""

====
